---- MODULE Spec2Model ----
(***************************************************************************)
(* Conversation context management of deepseek-console-app:                *)
(*   ChatSession            deepseek_console_app/core/session.py           *)
(*   GeneralAgent           deepseek_chat/agents/general_agent.py          *)
(*   stream_events          deepseek_chat/web/streaming.py                 *)
(*   DeepSeekClient         deepseek_console_app/client.py                 *)
(*                                                                         *)
(* A text is a sequence of one-character strings, so that str.strip() and  *)
(* "".join() are computed and not assumed.  A message is a record          *)
(* [role, content].                                                        *)
(*                                                                         *)
(* Two specifications share the variables:                                 *)
(*   SessionSpec  a ChatSession object driven through its public methods   *)
(*   Spec         web turns: stream_events driving GeneralAgent.stream_reply*)
(*   StrategySpec the ContextStrategy classes of agents/strategies.py       *)
(*                driven through their methods on one ChatSession           *)
(***************************************************************************)
EXTENDS Integers, Sequences, FiniteSets, TLC

\* ------------------------------------------------------------------ bounds
MaxCap == 2
MaxKeep == 1
MaxThreshold == 1
MaxChunks == 2
MaxTurns == 1
MaxCalls == 3
MaxFileMsgs == 2
MaxWindow == 2
MaxStratCalls == 4
MaxTextLen == 8
MaxSaves == 1
MaxRequests == 2
MaxBranchIndex == 1
MaxBranchCalls == 4
MaxLines == 3

\* --------------------------------------------------------------- alphabets
Space == " "
UserTexts == {<<"u">>, <<"v">>}
Chunks == {<<"h">>, <<Space>>}
Strategies == {"default", "branching", "window", "facts"}
None == "None"

VARIABLES
    \* ClientConfig
    max_messages, compression_enabled, compression_threshold,
    compression_keep, persist_context,
    \* ChatSession (facts is the attribute general_agent.py reads and assigns
    \* at lines 93, 105 and 133; it starts empty)
    messages, summary, facts,
    \* DeepSeekClient
    last_metrics,
    \* GeneralAgent (one instance per request) and its running stream_reply
    last_token_stats, response_parts, strategy, user_input,
    \* stream_events
    pc, resume, yielded, events, file,
    \* history variables of a turn
    calls, outcome, turns_run,
    \* the stream_reply generator left suspended, waiting to be finalized
    abandoned,
    \* history variables of the ChatSession API specification
    lastCall, appended, only_adds,
    \* the file system under a session path shared by several writers: the
    \* file at the path, the file at "{path}.tmp", each writer's save in progress
    path_file, tmp_file, writers,
    \* web/state.py: the session registry and the accumulated cost; and the
    \* /stream requests in progress, one per session id
    _sessions, _session_cost_usd, requests

configVars == <<max_messages, compression_enabled, compression_threshold,
                compression_keep, persist_context>>
sessionVars == <<messages, summary, facts>>
agentVars == <<last_token_stats, response_parts, strategy, user_input>>
webVars == <<pc, resume, yielded, events, file>>
turnHist == <<calls, outcome, turns_run>>
apiHist == <<lastCall, appended, only_adds>>
fsVars == <<path_file, tmp_file, writers>>
regVars == <<_sessions, _session_cost_usd, requests>>
vars == <<configVars, sessionVars, last_metrics, agentVars, webVars,
          turnHist, abandoned, apiHist, fsVars, regVars>>

\* ----------------------------------------------------------- text helpers
RECURSIVE lstrip(_)
lstrip(t) == IF t = <<>> THEN <<>>
             ELSE IF Head(t) = Space THEN lstrip(Tail(t)) ELSE t

RECURSIVE rstrip(_)
rstrip(t) == IF t = <<>> THEN <<>>
             ELSE IF t[Len(t)] = Space THEN rstrip(SubSeq(t, 1, Len(t) - 1))
             ELSE t

\* str.strip()
strip(t) == rstrip(lstrip(t))

RECURSIVE join(_)
\* "".join(parts)
join(parts) == IF parts = <<>> THEN <<>> ELSE Head(parts) \o join(Tail(parts))

\* Python s[-n:] for n >= 0; note that s[-0:] is s[0:], the whole list
SliceLast(s, n) == IF n = 0 \/ n >= Len(s) THEN s
                   ELSE SubSeq(s, Len(s) - n + 1, Len(s))

\* Python s[:-n] for n >= 0; note that s[:-0] is s[:0], the empty list
SliceButLast(s, n) == IF n = 0 \/ n >= Len(s) THEN <<>>
                      ELSE SubSeq(s, 1, Len(s) - n)

\* Python s[:n] for n >= 0
SliceFirst(s, n) == IF n >= Len(s) THEN s ELSE SubSeq(s, 1, n)

Msg(r, c) == [role |-> r, content |-> c]

\* ------------------------------------------------------------ ChatSession
_trim(msgs) == IF Len(msgs) > max_messages
               THEN SliceLast(msgs, max_messages)
               ELSE msgs

add_user(msgs, content) == _trim(Append(msgs, Msg("user", content)))

add_assistant(msgs, content) == _trim(Append(msgs, Msg("assistant", content)))

\* apply_compression with the slice taken from the wrong end
apply_compression_keeps_oldest(msgs, new_summary, keep_count) ==
    [summary |-> new_summary,
     messages |-> IF keep_count > 0 THEN SliceFirst(msgs, keep_count) ELSE <<>>]

apply_compression(msgs, new_summary, keep_count) ==
    [summary |-> new_summary,
     messages |-> IF keep_count > 0 THEN SliceLast(msgs, keep_count) ELSE <<>>]

\* The content of the file at a path: no file, a file json.load rejects, a
\* JSON value that is not an object (a list, a number, a string, null), or a
\* JSON object with a summary and a list of items
NoFile == [kind |-> "missing", summary |-> <<>>, messages |-> <<>>]
CorruptFile == [kind |-> "corrupt", summary |-> <<>>, messages |-> <<>>]
NonRecordFile == [kind |-> "nonrecord", summary |-> <<>>, messages |-> <<>>]
Record(s, m) == [kind |-> "record", summary |-> s, messages |-> m]

\* An item of the "messages" list that load accepts
ValidItem(item) == item.role \in {"user", "assistant"}

RECURSIVE valid_messages(_)
valid_messages(items) ==
    IF items = <<>> THEN <<>>
    ELSE IF ValidItem(Head(items))
         THEN <<Head(items)>> \o valid_messages(Tail(items))
         ELSE valid_messages(Tail(items))

\* ChatSession.load leaves by an exception: payload.get on a value that is no
\* dict raises AttributeError, which no except clause of load names
load_raises(f) == f.kind = "nonrecord"

\* ChatSession.load: the session fields after loading file content f
load(msgs, summ, f) ==
    IF f.kind = "missing" THEN [summary |-> summ, messages |-> msgs]
    ELSE IF f.kind = "corrupt" THEN [summary |-> <<>>, messages |-> <<>>]
    ELSE IF load_raises(f) THEN [summary |-> summ, messages |-> msgs]
    ELSE [summary |-> f.summary, messages |-> _trim(valid_messages(f.messages))]

\* ChatSession.save: the record written (and renamed over the path)
save(msgs, summ) == Record(summ, msgs)

\* ------------------------------------------- files under a shared path
\* A file is absent or holds a sequence of cells; a cell is the part-th piece
\* that json.dump of writer `by` wrote, or a hole (bytes never written)
Writers == {"A", "B"}
Absent == [exists |-> FALSE, data |-> <<>>]
Present(d) == [exists |-> TRUE, data |-> d]
IdleWriter == [pc |-> "idle", fd |-> None, offset |-> 0, saves |-> 0, raised |-> FALSE]

\* no save in progress, nothing on disk
FsIdle ==
    /\ path_file = Absent
    /\ tmp_file = Absent
    /\ writers = [w \in Writers |-> IdleWriter]

\* ---------------------------------------------------- session registry
\* ChatSession(max_messages=...) as the web application holds it: obj names
\* the object (two ids holding the same object see each other's changes),
\* origin tells a session made by clone from one made by the constructor
NewSession(id) == [messages |-> <<>>, summary |-> <<>>, facts |-> <<>>,
                   obj |-> id, origin |-> "new"]
SessionIds == {"default", "s2"}

\* the stats event of a request: the metrics read from the client, the
\* session_cost_usd reported, the part of it this session's requests added,
\* and the cost of the session's completed turns (due)
NoStatsEvent == [sent |-> FALSE, metrics |-> [kind |-> "None", turn |-> 0],
                 session_cost_usd |-> 0, own |-> 0, due |-> 0]

\* the /stream request of a session id: where stream_events is suspended,
\* the chunks of its main call, whether its agent has token statistics, its
\* stats event, the cost its requests added since the last reset, the cost
\* of the main calls of its completed turns since its own last clear, and
\* the record its last turn or clear saved
NoRequest == [pc |-> "idle", response_parts |-> <<>>, token_stats |-> FALSE,
              stats |-> NoStatsEvent, added |-> 0, due |-> 0, saved |-> NoFile]

\* web/state.py just imported, nothing loaded, no request running
RegIdle ==
    /\ _sessions = [id \in {"default"} |-> NewSession(id)]
    /\ _session_cost_usd = 0
    /\ requests = [id \in SessionIds |-> NoRequest]

\* ======================================================================
\* SessionSpec: one ChatSession object driven through its public methods
\* ======================================================================
AssistantTexts == {<<"h">>}
SummaryTexts == {<<"s">>, <<"t">>}

SeqsUpTo(S, n) == UNION {[1..k -> S] : k \in 0..n}

FileItems == {Msg("user", <<"u">>), Msg("assistant", <<"h">>), Msg("system", <<"x">>)}
FileContents == {NoFile, CorruptFile, NonRecordFile} \cup
    {Record(s, m) : s \in {<<>>, <<"s">>}, m \in SeqsUpTo(FileItems, MaxFileMsgs)}

\* the last method call: its name and arguments (for load: the kind of file
\* it read), the session it was made on
NoCall == [op |-> "init", text |-> <<>>, keep |-> 0, n |-> 0,
           before |-> [messages |-> <<>>, summary |-> <<>>]]
Call(op, text, keep) ==
    [op |-> op, text |-> text, keep |-> keep, n |-> lastCall.n + 1,
     before |-> [messages |-> messages, summary |-> summary]]

\* ChatSession(max_messages): empty history, empty summary
SessionInit ==
    /\ max_messages \in 0..MaxCap
    /\ compression_enabled = FALSE
    /\ compression_threshold = 0
    /\ compression_keep = 0
    /\ persist_context = FALSE
    /\ messages = <<>>
    /\ summary = <<>>
    /\ facts = <<>>
    /\ last_metrics = [kind |-> "None", turn |-> 0]
    /\ last_token_stats = 0
    /\ response_parts = <<>>
    /\ strategy = "default"
    /\ user_input = <<>>
    /\ pc = "api"
    /\ resume = "api"
    /\ yielded = <<>>
    /\ events = <<>>
    /\ file = NoFile
    /\ calls = <<>>
    /\ outcome = None
    /\ turns_run = 0
    /\ abandoned = None
    /\ lastCall = NoCall
    /\ appended = <<>>
    /\ only_adds = TRUE
    /\ FsIdle
    /\ RegIdle

ApiFrame == UNCHANGED <<configVars, fsVars, regVars, facts, last_metrics, agentVars, webVars, turnHist, abandoned>>

ApiAddUser(c) ==
    /\ pc = "api" /\ lastCall.n < MaxCalls
    /\ messages' = add_user(messages, c)
    /\ appended' = Append(appended, Msg("user", c))
    /\ lastCall' = Call("add_user", c, 0)
    /\ UNCHANGED <<summary, only_adds>>
    /\ ApiFrame

ApiAddAssistant(c) ==
    /\ pc = "api" /\ lastCall.n < MaxCalls
    /\ messages' = add_assistant(messages, c)
    /\ appended' = Append(appended, Msg("assistant", c))
    /\ lastCall' = Call("add_assistant", c, 0)
    /\ UNCHANGED <<summary, only_adds>>
    /\ ApiFrame

ApiClear ==
    /\ pc = "api" /\ lastCall.n < MaxCalls
    /\ messages' = <<>>
    /\ summary' = <<>>
    /\ only_adds' = FALSE
    /\ lastCall' = Call("clear", <<>>, 0)
    /\ UNCHANGED appended
    /\ ApiFrame

ApiLoad(f) ==
    /\ pc = "api" /\ lastCall.n < MaxCalls
    /\ messages' = load(messages, summary, f).messages
    /\ summary' = load(messages, summary, f).summary
    /\ only_adds' = FALSE
    /\ lastCall' = Call(IF load_raises(f) THEN "load_raised" ELSE "load",
                         <<f.kind>>, 0)
    /\ UNCHANGED appended
    /\ ApiFrame

ApiApplyCompression(s, k) ==
    /\ pc = "api" /\ lastCall.n < MaxCalls
    /\ messages' = apply_compression(messages, s, k).messages
    /\ summary' = apply_compression(messages, s, k).summary
    /\ only_adds' = FALSE
    /\ lastCall' = Call("apply_compression", s, k)
    /\ UNCHANGED appended
    /\ ApiFrame

SessionNext ==
    \/ \E c \in UserTexts : ApiAddUser(c)
    \/ \E c \in AssistantTexts : ApiAddAssistant(c)
    \/ ApiClear
    \/ \E f \in FileContents : ApiLoad(f)
    \/ \E s \in SummaryTexts, k \in 0..MaxKeep : ApiApplyCompression(s, k)

SessionSpec == SessionInit /\ [][SessionNext]_vars

\* ======================================================================
\* Spec: web turns.  stream_events iterates GeneralAgent.stream_reply, which
\* calls DeepSeekClient.stream_message for the side calls and the main call.
\* pc is the place where the turn is suspended:
\*   "yield"     stream_reply has yielded `yielded`; stream_events is at
\*               `await request.is_disconnected()`
\*   "compress"  stream_reply is about to run / is inside _compress_history
\*   "extract"   ... _extract_facts
\*   "build"     ... building request_messages / history_messages
\*   "main"      ... inside the `async for` over the main stream_message
\*   "title"     ... inside _generate_session_title
\*   "stats"     stream_reply is over (or the loop was left by break)
\*   "done"      the stats event was yielded
\*   "ended"     stream_events is over, its finally clause has run
\* ======================================================================
SYSTEM_PROMPT == <<"SYS">>
NoticeCompress == <<"[compress]">>
NoticeFacts == <<"[facts]">>
NoMetrics == [kind |-> "None", turn |-> 0]
NoStats == 0

Event(t, d) == [type |-> t, data |-> d]

IsDefaultOrBranching(strat) == strat \in {"default", "branching"}

\* sum(1 for m in messages if m["role"] == "user")
UserMsgCount(msgs) == Cardinality({i \in 1..Len(msgs) : msgs[i].role = "user"})

\* the condition with the threshold itself already triggering
CompressionDue_at_threshold(strat, msgs) ==
    /\ IsDefaultOrBranching(strat)
    /\ compression_enabled
    /\ UserMsgCount(msgs) >= compression_threshold

\* the condition of stream_reply for running _compress_history
CompressionDue(strat, msgs) ==
    /\ IsDefaultOrBranching(strat)
    /\ compression_enabled
    /\ UserMsgCount(msgs) > compression_threshold

\* summary_request of _compress_history
SummaryRequest(msgs, summ) ==
    <<Msg("system", <<"SUMSYS">>)>>
    \o SliceButLast(msgs, compression_keep)
    \o <<Msg("user", <<"SUMMARIZE">> \o summ)>>

\* request of _extract_facts
FactsRequest(msgs, fcts) ==
    <<Msg("system", <<"FACTSYS">>)>>
    \o (IF fcts # <<>> THEN <<Msg("system", <<"FACTS:">> \o fcts)>> ELSE <<>>)
    \o <<Msg("user", <<"EXTRACT">> \o msgs[Len(msgs)].content)>>

\* request of _generate_session_title
TitleRequest(msgs) ==
    <<Msg("system", <<"TITLESYS">>)>> \o SliceFirst(msgs, 4) \o <<Msg("user", <<"TITLE">>)>>

\* sys_prompt of stream_reply
SysPrompt(strat, fcts) ==
    IF strat = "facts" /\ fcts # <<>>
    THEN SYSTEM_PROMPT \o <<"FACTS:">> \o fcts
    ELSE SYSTEM_PROMPT

WindowSize == 10

\* history_messages of stream_reply
HistoryMessages(strat, msgs, summ, fcts) ==
    <<Msg("system", SysPrompt(strat, fcts))>>
    \o (IF IsDefaultOrBranching(strat) /\ summ # <<>>
        THEN <<Msg("system", <<"PCS:">> \o summ)>> ELSE <<>>)
    \o (IF strat \in {"window", "facts"} THEN SliceLast(msgs, WindowSize) ELSE msgs)

Metrics(k) == [kind |-> k, turn |-> turns_run]
\* a call of stream_message: what it is for, the messages sent, and the
\* session history when it is issued
RemoteCall(k, req) == [kind |-> k, request |-> req, history |-> messages,
                       raised |-> FALSE, returned |-> <<>>]
\* a collected call that returned: the text "".join(...).strip() made of it
Returned(k, req, ch) == [RemoteCall(k, req) EXCEPT !.returned = strip(join(ch))]
\* a call that raised
Raised(k, req) == [RemoteCall(k, req) EXCEPT !.raised = TRUE]

\* the finally clause of stream_events
Finally(msgs, summ) ==
    file' = IF persist_context THEN save(msgs, summ) ELSE file

\* the message of a web turn
TurnTexts == {<<"u">>}

\* what the session file can hold when the process starts: nothing, or the
\* record saved by an earlier run after its first turn, with and without title
InitialFiles == {NoFile,
                 Record(<<>>, <<Msg("user", <<"p">>), Msg("assistant", <<"h">>)>>),
                 Record(<<"h">>, <<Msg("user", <<"p">>), Msg("assistant", <<"h">>)>>)}

\* DEEPSEEK_PERSIST_CONTEXT is true unless set otherwise; with it off the
\* file is never written
PersistChoices == {TRUE}

\* state after importing web/state.py, which loads the session file
Init ==
    /\ max_messages \in 0..MaxCap
    /\ compression_enabled \in BOOLEAN
    /\ compression_threshold \in 0..MaxThreshold
    /\ compression_keep \in 0..MaxKeep
    \* threshold and keep are read only when compression is enabled
    /\ ~compression_enabled => compression_threshold = 0 /\ compression_keep = 0
    /\ persist_context \in PersistChoices
    /\ file \in InitialFiles
    /\ messages = (IF persist_context THEN load(<<>>, <<>>, file) ELSE load(<<>>, <<>>, NoFile)).messages
    /\ summary = (IF persist_context THEN load(<<>>, <<>>, file) ELSE load(<<>>, <<>>, NoFile)).summary
    /\ facts = <<>>
    /\ last_metrics = NoMetrics
    /\ last_token_stats = NoStats
    /\ response_parts = <<>>
    /\ strategy = "default"
    /\ user_input = <<>>
    /\ pc = "idle"
    /\ resume = "idle"
    /\ yielded = <<>>
    /\ events = <<>>
    /\ calls = <<>>
    /\ outcome = None
    /\ turns_run = 0
    /\ abandoned = None
    /\ lastCall = NoCall
    /\ appended = <<>>
    /\ only_adds = TRUE
    /\ FsIdle
    /\ RegIdle

\* stream_events up to the first suspension of stream_reply: add_user, then
\* the notice of the compression or of the fact extraction, if any
StartTurn(text, strat) ==
    /\ pc \in {"idle", "ended"}
    /\ abandoned = None
    /\ turns_run < MaxTurns
    /\ turns_run' = turns_run + 1
    /\ user_input' = text
    /\ strategy' = strat
    /\ messages' = add_user(messages, text)
    /\ last_token_stats' = NoStats
    /\ response_parts' = <<>>
    /\ events' = <<>>
    /\ calls' = <<>>
    /\ outcome' = None
    /\ IF CompressionDue(strat, messages')
       THEN pc' = "yield" /\ yielded' = NoticeCompress /\ resume' = "compress"
       ELSE IF strat = "facts"
       THEN pc' = "yield" /\ yielded' = NoticeFacts /\ resume' = "extract"
       ELSE pc' = "build" /\ yielded' = <<>> /\ resume' = "build"
    /\ UNCHANGED <<configVars, fsVars, regVars, summary, facts, last_metrics, file, abandoned, apiHist>>

\* request.is_disconnected() is False: the chunk goes out as a delta event and
\* stream_reply is resumed
DeliverDelta ==
    /\ pc = "yield"
    /\ events' = Append(events, Event("delta", yielded))
    /\ pc' = resume
    /\ UNCHANGED <<configVars, fsVars, regVars, sessionVars, last_metrics, agentVars, resume,
                   yielded, file, turnHist, abandoned, apiHist>>

\* what finalizing a stream_reply suspended before resuming at `at` will
\* close: the main stream_message if it is open, else nothing
InFlight(at) == IF at = "main" THEN "main" ELSE None

\* request.is_disconnected() is True: break; stream_reply stays suspended at
\* its yield and is never resumed
Disconnect ==
    /\ pc = "yield"
    /\ pc' = "stats"
    /\ outcome' = "disconnect"
    /\ abandoned' = InFlight(resume)
    /\ UNCHANGED <<configVars, fsVars, regVars, sessionVars, last_metrics, agentVars, resume,
                   yielded, events, file, calls, turns_run, apiHist>>

\* the results the transport delivers for a collected (side) call: no chunk,
\* white space only, a text, a text that strip() shortens
SideResults == {<<>>, <<<<Space>>>>, <<<<"h">>>>, <<<<Space>>, <<"h">>>>}

\* the except clause falling through to the done event
RaiseToStreamEvents_then_done(what) ==
    /\ events' = events \o <<Event("error", <<>>), Event("done", <<>>)>>
    /\ outcome' = what
    /\ pc' = "ended"
    /\ Finally(messages, summary)

\* `except Exception as exc: yield sse_event({"error": ...})`, then finally
RaiseToStreamEvents(what) ==
    /\ events' = Append(events, Event("error", <<>>))
    /\ outcome' = what
    /\ pc' = "ended"
    /\ Finally(messages, summary)

\* _compress_history: `if len(messages) <= keep_count: return`
CompressSkip ==
    /\ pc = "compress"
    /\ Len(messages) <= compression_keep
    /\ pc' = "build"
    /\ UNCHANGED <<configVars, fsVars, regVars, sessionVars, last_metrics, agentVars, resume,
                   yielded, events, file, turnHist, abandoned, apiHist>>

\* _compress_history applying the summary without cutting the history
CompressDone_keeps_history(ch) ==
    /\ pc = "compress"
    /\ Len(messages) > compression_keep
    /\ calls' = Append(calls, Returned("summary", SummaryRequest(messages, summary), ch))
    /\ last_metrics' = Metrics("summary")
    /\ LET new_summary == strip(join(ch))
       IN IF new_summary # <<>>
          THEN messages' = messages /\ summary' = new_summary
          ELSE UNCHANGED <<messages, summary>>
    /\ pc' = "build"
    /\ UNCHANGED <<configVars, fsVars, regVars, facts, agentVars, resume, yielded, events, file,
                   outcome, turns_run, abandoned, apiHist>>

\* _compress_history: the summarization call returns the chunks ch
CompressDone(ch) ==
    /\ pc = "compress"
    /\ Len(messages) > compression_keep
    /\ calls' = Append(calls, Returned("summary", SummaryRequest(messages, summary), ch))
    /\ last_metrics' = Metrics("summary")
    /\ LET new_summary == strip(join(ch))
           applied == apply_compression(messages, new_summary, compression_keep)
       IN IF new_summary # <<>>
          THEN messages' = applied.messages /\ summary' = applied.summary
          ELSE UNCHANGED <<messages, summary>>
    /\ pc' = "build"
    /\ UNCHANGED <<configVars, fsVars, regVars, facts, agentVars, resume, yielded, events, file,
                   outcome, turns_run, abandoned, apiHist>>

\* _compress_history: the summarization call raises
CompressRaise ==
    /\ pc = "compress"
    /\ Len(messages) > compression_keep
    /\ calls' = Append(calls, Raised("summary", SummaryRequest(messages, summary)))
    /\ last_metrics' = Metrics("summary")
    /\ RaiseToStreamEvents("side_error")
    /\ UNCHANGED <<configVars, fsVars, regVars, sessionVars, agentVars, resume, yielded,
                   turns_run, abandoned, apiHist>>

\* _extract_facts acts only when the last message is the user's
ExtractionDue(msgs) == msgs # <<>> /\ msgs[Len(msgs)].role = "user"

\* _extract_facts: the extraction call returns the chunks ch
ExtractDone(ch) ==
    /\ pc = "extract"
    /\ IF ExtractionDue(messages)
       THEN /\ calls' = Append(calls, Returned("facts", FactsRequest(messages, facts), ch))
            /\ last_metrics' = Metrics("facts")
            /\ LET new_facts == strip(join(ch))
               IN facts' = IF new_facts # <<>> THEN new_facts ELSE facts
       ELSE UNCHANGED <<calls, last_metrics, facts>>
    /\ pc' = "build"
    /\ UNCHANGED <<configVars, fsVars, regVars, messages, summary, agentVars, resume, yielded,
                   events, file, outcome, turns_run, abandoned, apiHist>>

\* _extract_facts: the extraction call raises
ExtractRaise ==
    /\ pc = "extract"
    /\ ExtractionDue(messages)
    /\ calls' = Append(calls, Raised("facts", FactsRequest(messages, facts)))
    /\ last_metrics' = Metrics("facts")
    /\ RaiseToStreamEvents("side_error")
    /\ UNCHANGED <<configVars, fsVars, regVars, sessionVars, agentVars, resume, yielded,
                   turns_run, abandoned, apiHist>>

\* history_messages built from the history add_user left, before the side call
BuildRequest_from_unprepared ==
    /\ pc = "build"
    /\ calls' = Append(calls, RemoteCall("main",
                       HistoryMessages(strategy,
                           IF calls # <<>> THEN calls[1].history ELSE messages,
                           summary, facts)))
    /\ pc' = "main"
    /\ UNCHANGED <<configVars, fsVars, regVars, sessionVars, last_metrics, agentVars, resume,
                   yielded, events, file, outcome, turns_run, abandoned, apiHist>>

\* stream_reply builds history_messages and opens the main stream_message
BuildRequest ==
    /\ pc = "build"
    /\ calls' = Append(calls, RemoteCall("main",
                       HistoryMessages(strategy, messages, summary, facts)))
    /\ pc' = "main"
    /\ UNCHANGED <<configVars, fsVars, regVars, sessionVars, last_metrics, agentVars, resume,
                   yielded, events, file, outcome, turns_run, abandoned, apiHist>>

\* the main call delivers c and the text accumulated so far is yielded
MainChunk_yields_text(c) ==
    /\ pc = "main"
    /\ Len(response_parts) < MaxChunks
    /\ response_parts' = Append(response_parts, c)
    /\ pc' = "yield" /\ yielded' = join(response_parts') /\ resume' = "main"
    /\ UNCHANGED <<configVars, fsVars, regVars, sessionVars, last_metrics, last_token_stats,
                   strategy, user_input, events, file, turnHist, abandoned, apiHist>>

\* the main call delivers the content chunk c: response_parts.append, yield
MainChunk(c) ==
    /\ pc = "main"
    /\ Len(response_parts) < MaxChunks
    /\ response_parts' = Append(response_parts, c)
    /\ pc' = "yield" /\ yielded' = c /\ resume' = "main"
    /\ UNCHANGED <<configVars, fsVars, regVars, sessionVars, last_metrics, last_token_stats,
                   strategy, user_input, events, file, turnHist, abandoned, apiHist>>

\* the main call raises: the exception leaves stream_reply at its `async for`
MainRaise ==
    /\ pc = "main"
    /\ last_metrics' = Metrics("main")
    /\ RaiseToStreamEvents("main_error")
    /\ UNCHANGED <<configVars, fsVars, regVars, sessionVars, agentVars, resume, yielded,
                   calls, turns_run, abandoned, apiHist>>

\* the main call is exhausted and the text is committed without strip()
MainEnd_commits_unstripped ==
    /\ pc = "main"
    /\ last_metrics' = Metrics("main")
    /\ last_token_stats' = turns_run
    /\ LET response == join(response_parts)
       IN messages' = IF response # <<>> THEN add_assistant(messages, response)
                      ELSE messages
    /\ pc' = IF Len(messages') \in {2, 4} /\ summary = <<>> THEN "title" ELSE "stats"
    /\ UNCHANGED <<configVars, fsVars, regVars, summary, facts, response_parts, strategy,
                   user_input, resume, yielded, events, file, turnHist,
                   abandoned, apiHist>>

\* the main call is exhausted: the code of stream_reply after its `async for`
MainEnd ==
    /\ pc = "main"
    /\ last_metrics' = Metrics("main")
    /\ last_token_stats' = turns_run
    /\ LET response == strip(join(response_parts))
       IN messages' = IF response # <<>> THEN add_assistant(messages, response)
                      ELSE messages
    /\ pc' = IF Len(messages') \in {2, 4} /\ summary = <<>> THEN "title" ELSE "stats"
    /\ UNCHANGED <<configVars, fsVars, regVars, summary, facts, response_parts, strategy,
                   user_input, resume, yielded, events, file, turnHist,
                   abandoned, apiHist>>

\* _generate_session_title: the title call returns the chunks ch (the alphabet
\* has no quote characters, so the two quote strips change nothing)
TitleDone(ch) ==
    /\ pc = "title"
    /\ calls' = Append(calls, Returned("title", TitleRequest(messages), ch))
    /\ last_metrics' = Metrics("title")
    /\ LET new_title == strip(join(ch))
       IN summary' = IF new_title # <<>> THEN new_title ELSE summary
    /\ pc' = "stats"
    /\ UNCHANGED <<configVars, fsVars, regVars, messages, facts, agentVars, resume, yielded,
                   events, file, outcome, turns_run, abandoned, apiHist>>

\* the exception of the title call leaving _generate_session_title
TitleRaise_propagates ==
    /\ pc = "title"
    /\ calls' = Append(calls, Raised("title", TitleRequest(messages)))
    /\ last_metrics' = Metrics("title")
    /\ RaiseToStreamEvents("side_error")
    /\ UNCHANGED <<configVars, fsVars, regVars, sessionVars, agentVars, resume, yielded,
                   turns_run, abandoned, apiHist>>

\* _generate_session_title: the title call raises; `except Exception` swallows
TitleRaise ==
    /\ pc = "title"
    /\ calls' = Append(calls, Raised("title", TitleRequest(messages)))
    /\ last_metrics' = Metrics("title")
    /\ pc' = "stats"
    /\ UNCHANGED <<configVars, fsVars, regVars, sessionVars, agentVars, resume, yielded,
                   events, file, outcome, turns_run, abandoned, apiHist>>

\* `if stats:` of stream_events
HasStats == last_token_stats # NoStats \/ last_metrics # NoMetrics

EmitStats ==
    /\ pc = "stats"
    /\ HasStats
    /\ events' = Append(events, Event("stats", <<>>))
    /\ pc' = "done"
    /\ UNCHANGED <<configVars, fsVars, regVars, sessionVars, last_metrics, agentVars, resume,
                   yielded, file, turnHist, abandoned, apiHist>>

\* `yield sse_event({"done": True})`, then finally
EmitDone ==
    /\ pc = "done" \/ (pc = "stats" /\ ~HasStats)
    /\ events' = Append(events, Event("done", <<>>))
    /\ outcome' = IF outcome = None THEN "done" ELSE outcome
    /\ pc' = "ended"
    /\ Finally(messages, summary)
    /\ UNCHANGED <<configVars, fsVars, regVars, sessionVars, last_metrics, agentVars, resume,
                   yielded, calls, turns_run, abandoned, apiHist>>

\* the metrics left by a cancellation that hits the turn suspended at `at`:
\* a side call that is open is left through the finally clause of
\* stream_message, which stores its metrics; before the call is opened
\* (stream_reply waits at the notice it yielded) nothing is stored
MetricsAfterCancel(at) ==
    CASE at = "compress" /\ Len(messages) > compression_keep
            -> {last_metrics, Metrics("summary")}
      [] at = "extract" /\ ExtractionDue(messages)
            -> {last_metrics, Metrics("facts")}
      [] at = "title" -> {Metrics("title")}
      [] OTHER -> {last_metrics}

\* the main stream_message left open by a cancellation at `at`
OpenAfterCancel(at) ==
    CASE at = "yield" -> InFlight(resume)
      [] at = "main" -> "main"
      [] OTHER -> None

\* the consumer cancels the task or closes the event generator while the turn
\* is suspended: CancelledError / GeneratorExit is no Exception, so only the
\* finally clause of stream_events runs
Cancel ==
    /\ pc \in {"yield", "compress", "extract", "main", "title", "done"}
    /\ outcome' = "cancel"
    /\ pc' = "ended"
    /\ abandoned' = OpenAfterCancel(pc)
    /\ last_metrics' \in MetricsAfterCancel(pc)
    /\ Finally(messages, summary)
    /\ UNCHANGED <<configVars, fsVars, regVars, sessionVars, agentVars, resume,
                   yielded, events, calls, turns_run, apiHist>>

\* the stream_reply generator left suspended is finalized (aclose):
\* GeneratorExit is raised at its yield; the only finally clause on the way is
\* the one of the open stream_message, which stores the metrics of that call
AsyncGenClose ==
    /\ abandoned # None
    /\ pc \in {"done", "ended"}
    /\ last_metrics' = Metrics(abandoned)
    /\ abandoned' = None
    /\ UNCHANGED <<configVars, fsVars, regVars, sessionVars, agentVars, webVars, turnHist, apiHist>>

Next ==
    \/ \E text \in TurnTexts, strat \in Strategies : StartTurn(text, strat)
    \/ DeliverDelta
    \/ Disconnect
    \/ CompressSkip
    \/ \E ch \in SideResults : CompressDone(ch)
    \/ CompressRaise
    \/ \E ch \in SideResults : ExtractDone(ch)
    \/ ExtractRaise
    \/ BuildRequest
    \/ \E c \in Chunks : MainChunk(c)
    \/ MainRaise
    \/ MainEnd
    \/ \E ch \in SideResults : TitleDone(ch)
    \/ TitleRaise
    \/ EmitStats
    \/ EmitDone
    \/ Cancel
    \/ AsyncGenClose

Spec == Init /\ [][Next]_vars

\* ======================================================================
\* StrategySpec: the ContextStrategy classes (deepseek_chat/agents/
\* strategies.py) called on one ChatSession, between add_user and
\* add_assistant calls.  Every call of a strategy method is made on the
\* strategy get_strategy returns for a name.
\* ======================================================================
\* get_strategy: the class an instance of which is returned for a name
get_strategy(strategy_name) ==
    IF strategy_name \in {"default", "branching"} THEN "DefaultStrategy"
    ELSE IF strategy_name = "window" THEN "WindowStrategy"
    ELSE IF strategy_name = "facts" THEN "FactsStrategy"
    ELSE "DefaultStrategy"

\* DefaultStrategy.process_context without the guard of _compress_history
DefaultStrategy_process_context_unguarded(msgs, summ, ch) ==
    IF ~(compression_enabled /\ UserMsgCount(msgs) > compression_threshold)
    THEN [issued |-> FALSE, summary |-> summ, messages |-> msgs]
    ELSE LET new_summary == strip(join(ch))
             applied == apply_compression(msgs, new_summary, compression_keep)
         IN IF new_summary # <<>>
            THEN [issued |-> TRUE, summary |-> applied.summary,
                  messages |-> applied.messages]
            ELSE [issued |-> TRUE, summary |-> summ, messages |-> msgs]

\* DefaultStrategy.process_context, the summarization call returning the
\* chunks ch: whether the call was issued, and the session afterwards
DefaultStrategy_process_context(msgs, summ, ch) ==
    IF ~(compression_enabled /\ UserMsgCount(msgs) > compression_threshold)
    THEN [issued |-> FALSE, summary |-> summ, messages |-> msgs]
    ELSE IF Len(msgs) <= compression_keep
    THEN [issued |-> FALSE, summary |-> summ, messages |-> msgs]
    ELSE LET new_summary == strip(join(ch))
             applied == apply_compression(msgs, new_summary, compression_keep)
         IN IF new_summary # <<>>
            THEN [issued |-> TRUE, summary |-> applied.summary,
                  messages |-> applied.messages]
            ELSE [issued |-> TRUE, summary |-> summ, messages |-> msgs]

\* _extract_facts appending the new text to the facts
FactsStrategy_extract_facts_appends(msgs, fcts, ch) ==
    IF ~ExtractionDue(msgs)
    THEN [issued |-> FALSE, facts |-> fcts]
    ELSE LET new_facts == strip(join(ch))
         IN [issued |-> TRUE,
             facts |-> IF new_facts # <<>> THEN fcts \o new_facts ELSE fcts]

\* FactsStrategy._extract_facts, the extraction call returning the chunks ch
FactsStrategy_extract_facts(msgs, fcts, ch) ==
    IF ~ExtractionDue(msgs)
    THEN [issued |-> FALSE, facts |-> fcts]
    ELSE LET new_facts == strip(join(ch))
         IN [issued |-> TRUE,
             facts |-> IF new_facts # <<>> THEN new_facts ELSE fcts]

\* the summary message added whether or not there is a summary
DefaultStrategy_build_history_messages_always(system_prompt, msgs, summ) ==
    <<Msg("system", system_prompt)>>
    \o <<Msg("system", <<"PCS:">> \o summ)>>
    \o msgs

DefaultStrategy_build_history_messages(system_prompt, msgs, summ) ==
    <<Msg("system", system_prompt)>>
    \o (IF summ # <<>> THEN <<Msg("system", <<"PCS:">> \o summ)>> ELSE <<>>)
    \o msgs

WindowStrategy_build_history_messages(window_size, system_prompt, msgs) ==
    <<Msg("system", system_prompt)>> \o SliceLast(msgs, window_size)

\* the facts left out of the system prompt
FactsStrategy_build_history_messages_plain(window_size, system_prompt, msgs, fcts) ==
    <<Msg("system", system_prompt)>> \o SliceLast(msgs, window_size)

FactsStrategy_build_history_messages(window_size, system_prompt, msgs, fcts) ==
    <<Msg("system", IF fcts # <<>> THEN system_prompt \o <<"FACTS:">> \o fcts
                    ELSE system_prompt)>>
    \o SliceLast(msgs, window_size)

\* get_system_message_for_response of the instance process_context was just
\* called on (None is the empty text here)
get_system_message_for_response(cls, msgs) ==
    IF cls = "DefaultStrategy"
    THEN IF compression_enabled /\ UserMsgCount(msgs) > compression_threshold
         THEN NoticeCompress ELSE <<>>
    ELSE IF cls = "FactsStrategy" THEN NoticeFacts
    ELSE <<>>

\* the last call made: the method, the strategy name, the window_size the
\* instance was built with, the chunks the remote call returned, whether a
\* remote call was issued, whether the session was compressed, the value
\* returned, the session before the call, and what the call before it was
NoStratCall ==
    [op |-> "init", strat |-> "default", window |-> 0, chunks |-> <<>>,
     issued |-> FALSE, compressed |-> FALSE, result |-> <<>>, inline |-> <<>>,
     n |-> 0, before |-> [messages |-> <<>>, summary |-> <<>>, facts |-> <<>>],
     again |-> FALSE, after_compression |-> FALSE]

StratCall(op, strat, w, ch, issued, compressed, result, inline, counted) ==
    [op |-> op, strat |-> strat, window |-> w, chunks |-> ch,
     issued |-> issued, compressed |-> compressed,
     result |-> result, inline |-> inline,
     n |-> lastCall.n + counted,
     before |-> [messages |-> messages, summary |-> summary, facts |-> facts],
     again |-> /\ op = "process_context"
               /\ lastCall.op = op /\ lastCall.strat = strat
               /\ lastCall.issued /\ issued /\ lastCall.chunks = ch,
     after_compression |-> lastCall.op = "process_context" /\ lastCall.compressed]

\* a ChatSession(max_messages) just created and a client configuration
StrategyInit ==
    /\ max_messages \in 0..MaxCap
    /\ compression_enabled \in BOOLEAN
    /\ compression_threshold \in 0..MaxThreshold
    /\ compression_keep \in 0..MaxKeep
    /\ persist_context = FALSE
    /\ messages = <<>>
    /\ summary = <<>>
    /\ facts = <<>>
    /\ last_metrics = NoMetrics
    /\ last_token_stats = NoStats
    /\ response_parts = <<>>
    /\ strategy = "default"
    /\ user_input = <<>>
    /\ pc = "strategy"
    /\ resume = "strategy"
    /\ yielded = <<>>
    /\ events = <<>>
    /\ file = NoFile
    /\ calls = <<>>
    /\ outcome = None
    /\ turns_run = 0
    /\ abandoned = None
    /\ lastCall = NoStratCall
    /\ appended = <<>>
    /\ only_adds = TRUE
    /\ FsIdle
    /\ RegIdle

StratFrame == UNCHANGED <<configVars, fsVars, regVars, last_metrics, agentVars, webVars,
                          turnHist, abandoned, appended, only_adds>>

StratAddUser(c) ==
    /\ pc = "strategy" /\ lastCall.n < MaxStratCalls
    /\ messages' = add_user(messages, c)
    /\ lastCall' = StratCall("add_user", "default", 0, <<>>, FALSE, FALSE, <<>>, <<>>, 1)
    /\ UNCHANGED <<summary, facts>>
    /\ StratFrame

StratAddAssistant(c) ==
    /\ pc = "strategy" /\ lastCall.n < MaxStratCalls
    /\ messages' = add_assistant(messages, c)
    /\ lastCall' = StratCall("add_assistant", "default", 0, <<>>, FALSE, FALSE, <<>>, <<>>, 1)
    /\ UNCHANGED <<summary, facts>>
    /\ StratFrame

\* process_context of the strategy for the name, the remote call (if one is
\* issued) returning the chunks ch; then get_system_message_for_response
StratProcessContext(strategy_name, ch) ==
    /\ pc = "strategy" /\ lastCall.n < MaxStratCalls
    /\ LET cls == get_strategy(strategy_name)
           d == DefaultStrategy_process_context(messages, summary, ch)
           f == FactsStrategy_extract_facts(messages, facts, ch)
           issued == CASE cls = "DefaultStrategy" -> d.issued
                       [] cls = "FactsStrategy" -> f.issued
                       [] OTHER -> FALSE
       IN /\ messages' = IF cls = "DefaultStrategy" THEN d.messages ELSE messages
          /\ summary' = IF cls = "DefaultStrategy" THEN d.summary ELSE summary
          /\ facts' = IF cls = "FactsStrategy" THEN f.facts ELSE facts
          \* the chunks matter only when a call is issued
          /\ ~issued => ch = <<>>
          /\ lastCall' = StratCall("process_context", strategy_name, 0,
                                   IF issued THEN ch ELSE <<>>, issued,
                                   cls = "DefaultStrategy" /\ issued
                                       /\ strip(join(ch)) # <<>>,
                                   get_system_message_for_response(cls, messages'),
                                   <<>>, 1)
    /\ StratFrame

\* process_context whose remote call raises: the exception leaves
\* process_context before the session is touched
StratProcessContextRaise(strategy_name) ==
    /\ pc = "strategy" /\ lastCall.n < MaxStratCalls
    /\ LET cls == get_strategy(strategy_name)
       IN \/ cls = "DefaultStrategy"
             /\ DefaultStrategy_process_context(messages, summary, <<>>).issued
          \/ cls = "FactsStrategy"
             /\ FactsStrategy_extract_facts(messages, facts, <<>>).issued
    /\ lastCall' = StratCall("process_context_raised", strategy_name, 0, <<>>,
                             TRUE, FALSE, <<>>, <<>>, 1)
    /\ UNCHANGED <<messages, summary, facts>>
    /\ StratFrame

\* build_history_messages(SYSTEM_PROMPT) of the strategy for the name, built
\* with window_size w, and the list stream_reply builds inline for that name
StratBuildHistory(strategy_name, w) ==
    /\ pc = "strategy"
    \* DefaultStrategy takes no window_size
    /\ get_strategy(strategy_name) = "DefaultStrategy" => w = 0
    /\ LET cls == get_strategy(strategy_name)
       IN lastCall' = StratCall("build_history_messages", strategy_name,
              IF cls = "DefaultStrategy" THEN 0 ELSE w, <<>>, FALSE, FALSE,
              CASE cls = "DefaultStrategy" ->
                     DefaultStrategy_build_history_messages(SYSTEM_PROMPT, messages, summary)
                [] cls = "WindowStrategy" ->
                     WindowStrategy_build_history_messages(w, SYSTEM_PROMPT, messages)
                [] OTHER ->
                     FactsStrategy_build_history_messages(w, SYSTEM_PROMPT, messages, facts),
              HistoryMessages(strategy_name, messages, summary, facts), 0)
    /\ UNCHANGED <<messages, summary, facts>>
    /\ StratFrame

\* the `strategy` query parameter of /stream is any string
UnknownStrategies == {"custom"}
StrategyNames == Strategies \cup UnknownStrategies

\* save(path, ...) of the session, then load(path) on a new
\* ChatSession(max_messages): `loaded` is the new session, whose facts nothing
\* has assigned; the session that was saved is not changed
StratSaveThenLoad ==
    /\ pc = "strategy" /\ lastCall.n < MaxStratCalls
    /\ LET fresh == load(<<>>, <<>>, save(messages, summary))
       IN lastCall' = [loaded |-> [messages |-> fresh.messages,
                                   summary |-> fresh.summary,
                                   facts |-> <<>>]]
                      @@ StratCall("save_load", "default", 0, <<>>, FALSE, FALSE,
                                   <<>>, <<>>, 1)
    /\ UNCHANGED <<messages, summary, facts>>
    /\ StratFrame

StrategyNext ==
    \/ \E c \in TurnTexts : StratAddUser(c)
    \/ \E c \in AssistantTexts : StratAddAssistant(c)
    \/ \E name \in Strategies, ch \in SideResults : StratProcessContext(name, ch)
    \/ \E name \in Strategies : StratProcessContextRaise(name)
    \/ \E name \in StrategyNames, w \in 0..MaxWindow : StratBuildHistory(name, w)
    \/ StratSaveThenLoad

StrategySpec == StrategyInit /\ [][StrategyNext]_vars

\* ======================================================================
\* TokenSpec: count_text_tokens (deepseek_console_app/token_counter.py)
\* called on texts, with and without a tiktoken encoder
\* ======================================================================
\* ceil(n / 4) for an integer n >= 0
ceil_div4(n) == (n + 3) \div 4
Max(a, b) == IF a >= b THEN a ELSE b

TokenCount(tokens, method) == [tokens |-> tokens, method |-> method]

\* the heuristic rounding down
count_text_tokens_floor(text, encoder, n_encoded) ==
    IF text = <<>> THEN TokenCount(0, "heuristic")
    ELSE IF encoder # None THEN TokenCount(n_encoded, "tiktoken")
    ELSE TokenCount(Max(1, Len(text) \div 4), "heuristic")

\* count_text_tokens(text): encoder is what _try_get_tiktoken_encoder
\* returns, n_encoded is len(encoder.encode(text))
count_text_tokens(text, encoder, n_encoded) ==
    IF text = <<>> THEN TokenCount(0, "heuristic")
    ELSE IF encoder # None THEN TokenCount(n_encoded, "tiktoken")
    ELSE TokenCount(Max(1, ceil_div4(Len(text))), "heuristic")

Alphabet == <<"a", "b", "c", "d", "e", "f", "g", "h", "i", "j", "k", "l">>
TokenTexts == {SubSeq(Alphabet, 1, k) : k \in 0..MaxTextLen}
Encoders == {None, "tiktoken"}

NoTokenCall ==
    [op |-> "init", text |-> <<>>, encoder |-> None,
     result |-> TokenCount(0, "heuristic"),
     prev |-> [text |-> <<>>, encoder |-> None, result |-> TokenCount(0, "heuristic")]]

TokenInit ==
    /\ max_messages = 0
    /\ compression_enabled = FALSE
    /\ compression_threshold = 0
    /\ compression_keep = 0
    /\ persist_context = FALSE
    /\ messages = <<>>
    /\ summary = <<>>
    /\ facts = <<>>
    /\ last_metrics = NoMetrics
    /\ last_token_stats = NoStats
    /\ response_parts = <<>>
    /\ strategy = "default"
    /\ user_input = <<>>
    /\ pc = "tokens"
    /\ resume = "tokens"
    /\ yielded = <<>>
    /\ events = <<>>
    /\ file = NoFile
    /\ calls = <<>>
    /\ outcome = None
    /\ turns_run = 0
    /\ abandoned = None
    /\ lastCall = NoTokenCall
    /\ appended = <<>>
    /\ only_adds = TRUE
    /\ FsIdle
    /\ RegIdle

\* one call of count_text_tokens; a tiktoken encoder makes between one token
\* and one token per character of a non-empty text
CountTextTokens(text, encoder, n_encoded) ==
    /\ pc = "tokens"
    /\ encoder = None => n_encoded = 0
    /\ (encoder # None /\ text = <<>>) => n_encoded = 0
    /\ (encoder # None /\ text # <<>>) => n_encoded >= 1
    /\ lastCall' = [op |-> "count_text_tokens", text |-> text, encoder |-> encoder,
                    result |-> count_text_tokens(text, encoder, n_encoded),
                    prev |-> [text |-> lastCall.text, encoder |-> lastCall.encoder,
                              result |-> lastCall.result]]
    /\ UNCHANGED <<configVars, fsVars, regVars, sessionVars, last_metrics, agentVars, webVars,
                   turnHist, abandoned, appended, only_adds>>

TokenNext ==
    \E text \in TokenTexts, encoder \in Encoders, n_encoded \in 0..MaxTextLen :
        n_encoded <= Len(text) /\ CountTextTokens(text, encoder, n_encoded)

TokenSpec == TokenInit /\ [][TokenNext]_vars

\* ======================================================================
\* FsSpec: ChatSession.save run by two writers (processes) on the same path.
\* A save opens "{path}.tmp" for writing, which creates the file or truncates
\* the existing one, writes the record piece by piece at its own file
\* position, closes, and renames the temporary file over the path.  A file
\* descriptor follows its file through a rename.
\* ======================================================================
\* the number of write calls json.dump's output reaches the file in
Pieces == 2

Cell(w, i) == [by |-> w, part |-> i]
Hole == Cell("none", 0)

\* the complete record of writer w ("old": the record of an earlier run)
RecordOf(w) == [i \in 1..Pieces |-> Cell(w, i)]

\* write(x) at file position pos of a file holding d
WriteAt(d, pos, x) ==
    IF pos <= Len(d) THEN [d EXCEPT ![pos] = x]
    ELSE d \o [i \in 1..(pos - Len(d) - 1) |-> Hole] \o <<x>>

\* every variable of the other specifications at rest
ProgramAtRest(at, cap) ==
    /\ max_messages = cap
    /\ compression_enabled = FALSE
    /\ compression_threshold = 0
    /\ compression_keep = 0
    /\ persist_context = TRUE
    /\ messages = <<>>
    /\ summary = <<>>
    /\ facts = <<>>
    /\ last_metrics = NoMetrics
    /\ last_token_stats = NoStats
    /\ response_parts = <<>>
    /\ strategy = "default"
    /\ user_input = <<>>
    /\ pc = at
    /\ resume = at
    /\ yielded = <<>>
    /\ events = <<>>
    /\ file = NoFile
    /\ calls = <<>>
    /\ outcome = None
    /\ turns_run = 0
    /\ abandoned = None
    /\ lastCall = NoCall
    /\ appended = <<>>
    /\ only_adds = TRUE

\* no file at the path, or the complete record of an earlier run
FsInit ==
    /\ ProgramAtRest("fs", 0)
    /\ path_file \in {Absent, Present(RecordOf("old"))}
    /\ tmp_file = Absent
    /\ writers = [w \in Writers |-> IdleWriter]
    /\ RegIdle

FsFrame == UNCHANGED <<configVars, sessionVars, last_metrics, agentVars, webVars,
                       turnHist, abandoned, apiHist, regVars>>

\* open(tmp_path, "w")
SaveOpen(w) ==
    /\ pc = "fs"
    /\ writers[w].pc = "idle" /\ writers[w].saves < MaxSaves
    /\ tmp_file' = Present(<<>>)
    /\ writers' = [writers EXCEPT ![w] = [pc |-> "writing", fd |-> "tmp", offset |-> 0,
                                          saves |-> @.saves + 1, raised |-> @.raised]]
    /\ UNCHANGED path_file
    /\ FsFrame

\* one write of json.dump reaching the file the descriptor is open on
SaveWrite(w) ==
    /\ pc = "fs"
    /\ writers[w].pc = "writing" /\ writers[w].offset < Pieces
    /\ LET pos == writers[w].offset + 1
       IN /\ tmp_file' = IF writers[w].fd = "tmp"
                         THEN Present(WriteAt(tmp_file.data, pos, Cell(w, pos)))
                         ELSE tmp_file
          /\ path_file' = IF writers[w].fd = "path"
                          THEN Present(WriteAt(path_file.data, pos, Cell(w, pos)))
                          ELSE path_file
          /\ writers' = [writers EXCEPT ![w].offset = pos]
    /\ FsFrame

\* the file is closed and os.replace(tmp_path, path) runs: the temporary file
\* becomes the file at the path, or FileNotFoundError when it is gone
SaveReplace(w) ==
    /\ pc = "fs"
    /\ writers[w].pc = "writing" /\ writers[w].offset = Pieces
    /\ IF tmp_file.exists
       THEN /\ path_file' = tmp_file
            /\ tmp_file' = Absent
            /\ writers' = [v \in Writers |->
                  IF v = w THEN [writers[v] EXCEPT !.pc = "idle", !.fd = None]
                  ELSE [writers[v] EXCEPT !.fd = IF @ = "tmp" THEN "path"
                                                 ELSE IF @ = "path" THEN "gone"
                                                 ELSE @]]
       ELSE /\ writers' = [writers EXCEPT ![w].pc = "idle", ![w].fd = None,
                                          ![w].raised = TRUE]
            /\ UNCHANGED <<path_file, tmp_file>>
    /\ FsFrame

\* the process of the writer dies in the middle of save
Crash(w) ==
    /\ pc = "fs"
    /\ writers[w].pc = "writing"
    /\ writers' = [writers EXCEPT ![w].pc = "crashed", ![w].fd = None]
    /\ UNCHANGED <<path_file, tmp_file>>
    /\ FsFrame

FsNext ==
    \E w \in Writers :
        \/ SaveOpen(w)
        \/ SaveWrite(w)
        \/ SaveReplace(w)
        \/ Crash(w)

FsSpec == FsInit /\ [][FsNext]_vars

\* ======================================================================
\* RegistrySpec: /stream requests of several session ids running in one
\* process (web/state.py, web/streaming.py, web/routes.py).  The requests
\* interleave at their awaits.  They share the DeepSeekClient (last_metrics),
\* _session_cost_usd and the file at config.context_path.  Compression is
\* disabled and the strategy is default, so the only side call is the title
\* call.  A completed call costs CallCost; a call that raises has no usage
\* and its cost is None, written 0.
\* ======================================================================
RegCap == 4
CallCost == 1
ReplyChunks == 1
TitleResults == {<<>>, <<<<"t">>>>}

\* the message the consumer of a session id sends
UserTextOf(id) == IF id = "default" THEN <<"u">> ELSE <<"v">>

\* StreamMetrics stored by the finally clause of stream_message
CallMetrics(id, k, cost) == [kind |-> k, turn |-> turns_run, session |-> id,
                             cost_usd |-> cost]

\* get_session(session_id)
SessionOf(id) == IF id \in DOMAIN _sessions THEN _sessions[id] ELSE NewSession(id)

\* _sessions after the object get_session(id) returns has become sess
WithSession(id, sess) ==
    [i \in DOMAIN _sessions \cup {id} |->
        IF i = id THEN sess
        ELSE IF _sessions[i].obj = SessionOf(id).obj THEN sess
        ELSE _sessions[i]]

\* ChatSession.clone(up_to_index): a new object with a copy of the messages
\* up to and including the index, of the summary and of the facts
clone(sess, up_to_index, new_obj) ==
    [messages |-> SliceFirst(sess.messages, up_to_index + 1),
     summary |-> sess.summary, facts |-> sess.facts,
     obj |-> new_obj, origin |-> "clone"]

RegInit ==
    /\ ProgramAtRest("web", RegCap)
    /\ FsIdle
    /\ RegIdle

RegFrame == UNCHANGED <<configVars, fsVars, sessionVars, agentVars, pc, resume,
                        yielded, events, calls, outcome, abandoned, apiHist>>

\* stream_events up to the main stream_message of stream_reply
ReqStart(id) ==
    /\ pc = "web"
    /\ requests[id].pc = "idle"
    /\ turns_run < MaxRequests
    /\ turns_run' = turns_run + 1
    /\ _sessions' = WithSession(id,
          [SessionOf(id) EXCEPT !.messages = add_user(@, UserTextOf(id))])
    /\ requests' = [requests EXCEPT ![id] =
          [NoRequest EXCEPT !.pc = "main", !.added = requests[id].added,
                            !.due = requests[id].due,
                            !.saved = requests[id].saved]]
    /\ UNCHANGED <<last_metrics, file, _session_cost_usd>>
    /\ RegFrame

\* the main call delivers a chunk, which stream_reply yields
ReqMainChunk(id, c) ==
    /\ pc = "web"
    /\ requests[id].pc = "main"
    /\ Len(requests[id].response_parts) < ReplyChunks
    /\ requests' = [requests EXCEPT ![id].response_parts = Append(@, c),
                                    ![id].pc = "yield"]
    /\ UNCHANGED <<last_metrics, file, turns_run, _sessions, _session_cost_usd>>
    /\ RegFrame

\* request.is_disconnected() is False
ReqDeliver(id) ==
    /\ pc = "web"
    /\ requests[id].pc = "yield"
    /\ requests' = [requests EXCEPT ![id].pc = "main"]
    /\ UNCHANGED <<last_metrics, file, turns_run, _sessions, _session_cost_usd>>
    /\ RegFrame

\* stream_events after its loop, which runs without an await up to the next
\* yield: client.last_metrics() is lm, its cost is added to _session_cost_usd
\* and the stats event is built; req is the request so far
AfterLoop(lm, req) ==
    LET cost == IF lm # NoMetrics THEN lm.cost_usd ELSE 0
    IN [cost |-> cost,
        request |-> [req EXCEPT
            !.added = @ + cost,
            !.stats = IF req.token_stats \/ lm # NoMetrics
                      THEN [sent |-> TRUE, metrics |-> lm,
                            session_cost_usd |-> _session_cost_usd + cost,
                            own |-> req.added + cost, due |-> req.due]
                      ELSE @,
            !.pc = "done"]]

\* request.is_disconnected() is True: break, then the code after the loop
ReqDisconnect(id) ==
    /\ pc = "web"
    /\ requests[id].pc = "yield"
    /\ LET after == AfterLoop(last_metrics, requests[id])
       IN /\ requests' = [requests EXCEPT ![id] = after.request]
          /\ _session_cost_usd' = _session_cost_usd + after.cost
    /\ UNCHANGED <<last_metrics, file, turns_run, _sessions>>
    /\ RegFrame

\* the main call is exhausted: metrics stored, reply committed; the title
\* call follows when the history has 2 or 4 messages and no summary, else
\* stream_reply is over and stream_events runs on to its stats event
ReqMainEnd(id) ==
    /\ pc = "web"
    /\ requests[id].pc = "main"
    /\ last_metrics' = CallMetrics(id, "main", CallCost)
    /\ LET response == strip(join(requests[id].response_parts))
           sess == SessionOf(id)
           msgs == IF response # <<>> THEN add_assistant(sess.messages, response)
                   ELSE sess.messages
           req == [requests[id] EXCEPT !.token_stats = TRUE, !.due = @ + CallCost]
           after == AfterLoop(last_metrics', req)
       IN /\ _sessions' = WithSession(id, [sess EXCEPT !.messages = msgs])
          /\ IF Len(msgs) \in {2, 4} /\ sess.summary = <<>>
             THEN /\ requests' = [requests EXCEPT ![id] = [req EXCEPT !.pc = "title"]]
                  /\ UNCHANGED _session_cost_usd
             ELSE /\ requests' = [requests EXCEPT ![id] = after.request]
                  /\ _session_cost_usd' = _session_cost_usd + after.cost
    /\ UNCHANGED <<file, turns_run>>
    /\ RegFrame

\* the main call raises: the error event is yielded
ReqMainRaise(id) ==
    /\ pc = "web"
    /\ requests[id].pc = "main"
    /\ last_metrics' = CallMetrics(id, "main", 0)
    /\ requests' = [requests EXCEPT ![id].pc = "done"]
    /\ UNCHANGED <<file, turns_run, _sessions, _session_cost_usd>>
    /\ RegFrame

\* _generate_session_title: the call returns the chunks ch; stream_reply is
\* over and stream_events runs on to its stats event
ReqTitleDone(id, ch) ==
    /\ pc = "web"
    /\ requests[id].pc = "title"
    /\ last_metrics' = CallMetrics(id, "title", CallCost)
    /\ LET new_title == strip(join(ch))
           after == AfterLoop(last_metrics', requests[id])
       IN /\ _sessions' = WithSession(id,
                [SessionOf(id) EXCEPT !.summary = IF new_title # <<>> THEN new_title ELSE @])
          /\ requests' = [requests EXCEPT ![id] = after.request]
          /\ _session_cost_usd' = _session_cost_usd + after.cost
    /\ UNCHANGED <<file, turns_run>>
    /\ RegFrame

\* _generate_session_title: the call raises, which is swallowed
ReqTitleRaise(id) ==
    /\ pc = "web"
    /\ requests[id].pc = "title"
    /\ last_metrics' = CallMetrics(id, "title", 0)
    /\ LET after == AfterLoop(last_metrics', requests[id])
       IN /\ requests' = [requests EXCEPT ![id] = after.request]
          /\ _session_cost_usd' = _session_cost_usd + after.cost
    /\ UNCHANGED <<file, turns_run, _sessions>>
    /\ RegFrame

\* the consumer takes the remaining events (stats, done or error) and the
\* finally clause saves the session to context_path
ReqDone(id) ==
    /\ pc = "web"
    /\ requests[id].pc = "done"
    /\ file' = IF persist_context
               THEN save(SessionOf(id).messages, SessionOf(id).summary) ELSE file
    /\ requests' = [requests EXCEPT ![id].pc = "idle",
                                    ![id].saved = IF persist_context THEN file' ELSE @]
    /\ UNCHANGED <<last_metrics, turns_run, _sessions, _session_cost_usd>>
    /\ RegFrame

\* POST /clear
ReqClear(id) ==
    /\ pc = "web"
    /\ _sessions' = WithSession(id, [SessionOf(id) EXCEPT !.messages = <<>>,
                                                          !.summary = <<>>])
    /\ _session_cost_usd' = 0
    /\ file' = IF persist_context THEN save(<<>>, <<>>) ELSE file
    /\ requests' = [i \in SessionIds |->
          [requests[i] EXCEPT !.added = 0, !.due = IF i = id THEN 0 ELSE @,
                              !.saved = IF i = id /\ persist_context THEN file' ELSE @]]
    /\ UNCHANGED <<last_metrics, turns_run>>
    /\ RegFrame

RegNext ==
    \E id \in SessionIds :
        \/ ReqStart(id)
        \/ \E c \in Chunks : ReqMainChunk(id, c)
        \/ ReqDeliver(id)
        \/ ReqDisconnect(id)
        \/ ReqMainEnd(id)
        \/ ReqMainRaise(id)
        \/ \E ch \in TitleResults : ReqTitleDone(id, ch)
        \/ ReqTitleRaise(id)
        \/ ReqDone(id)
        \/ ReqClear(id)

RegistrySpec == RegInit /\ [][RegNext]_vars

\* ======================================================================
\* Claims
\* ======================================================================
\* the last k elements of s, in order
Suffix(s, k) == [i \in 1..k |-> s[Len(s) - k + i]]

Min(a, b) == IF a <= b THEN a ELSE b

Last(s) == s[Len(s)]

\* the text stream_reply has accumulated from the main call
PartialText == strip(join(response_parts))

Terminal(e) == e.type \in {"done", "error"}
TerminalCount == Cardinality({i \in 1..Len(events) : Terminal(events[i])})

\* C1: when the main call raises after content chunks were delivered, the
\* turn ends with the stripped text received so far committed as the last
\* assistant turn (when non-empty) and with an error event as last event.
C1_PartialCommittedOnTransportError ==
    (pc = "ended" /\ outcome = "main_error" /\ PartialText # <<>>)
        => /\ messages # <<>>
           /\ Last(messages) = Msg("assistant", PartialText)
           /\ events # <<>>
           /\ Last(events).type = "error"

\* C2: when the consumer stops consuming mid-stream (disconnect seen by
\* stream_events, or the generator cancelled or closed), then once the turn is
\* over and the suspended stream_reply has been finalized, the partial text
\* (when non-empty) is the last assistant turn of the history.
C2_PartialCommittedOnCancellation ==
    (pc = "ended" /\ outcome \in {"disconnect", "cancel"} /\ abandoned = None
     /\ PartialText # <<>>)
        => /\ messages # <<>>
           /\ Last(messages) = Msg("assistant", PartialText)

\* C3: the user's text is in the history when the first remote call of the
\* turn is issued, and it is still in the history when the turn has ended,
\* whatever the outcome.
C3_UserTurnRecorded ==
    /\ (calls # <<>> /\ pc \notin {"idle", "api"})
          => calls[1].history # <<>>
             /\ Last(calls[1].history) = Msg("user", user_input)
    /\ pc = "ended"
          => \E i \in 1..Len(messages) : messages[i] = Msg("user", user_input)

\* C4: after every call of add_user, add_assistant, apply_compression, clear
\* and load, the history holds at most max_messages messages.
C4_LenWithinCapacity == Len(messages) <= max_messages

\* C5: after n add_user / add_assistant calls on an empty session the history
\* is the last min(n, max_messages) appended messages, in order, unchanged.
C5_TrimKeepsNewest ==
    only_adds => messages = Suffix(appended, Min(Len(appended), max_messages))

\* C6 as stated: a web turn that has ended has produced exactly one terminal
\* event (done or error), and it is the last event.
C6_ExactlyOneTerminal ==
    pc = "ended" => /\ TerminalCount = 1
                    /\ Terminal(Last(events))

\* C6 as amended: at most one terminal event is produced and nothing follows
\* it; a turn that ended without being cancelled has produced exactly one; a
\* turn cancelled before its terminal event (CancelledError / GeneratorExit,
\* which `except Exception` does not catch) has produced none.
C6_OneTerminalUnlessCancelled ==
    /\ \A i \in 1..Len(events) : Terminal(events[i]) => i = Len(events)
    /\ (pc = "ended" /\ outcome # "cancel")
          => events # <<>> /\ Terminal(Last(events))
    /\ (pc = "ended" /\ outcome = "cancel") => TerminalCount = 0

\* a turn that streamed a delta, then its stats, then done
C6_Witness ==
    /\ pc = "ended"
    /\ Len(events) >= 3
    /\ events[1].type = "delta"
    /\ events[Len(events) - 1].type = "stats"
    /\ Last(events).type = "done"

\* C7: a side call (summarization, fact extraction) that raises does not end
\* the turn: the main call is still issued and the turn does not end with the
\* error event of that failure.
C7_SideCallFailureNotPropagated ==
    (pc = "ended" /\ outcome = "side_error")
        => /\ \E i \in 1..Len(calls) : calls[i].kind = "main"
           /\ Last(events).type # "error"

\* C8: apply_compression(new_summary, keep) on a history of more than keep
\* messages sets summary to new_summary and leaves the last keep messages.
C8_ApplyCompressionReplaces ==
    (lastCall.op = "apply_compression"
     /\ Len(lastCall.before.messages) > lastCall.keep)
        => /\ summary = lastCall.text
           /\ messages = Suffix(lastCall.before.messages, lastCall.keep)

\* a compression that replaced a different, non-empty summary and dropped the
\* oldest message of a history of two different messages
C8_Witness ==
    /\ lastCall.op = "apply_compression"
    /\ lastCall.keep = 1
    /\ Len(lastCall.before.messages) = 2
    /\ lastCall.before.messages[1] # lastCall.before.messages[2]
    /\ lastCall.before.summary # <<>>
    /\ lastCall.before.summary # lastCall.text
    /\ summary = lastCall.text

\* C9: apply_compression(s, keep) on a history of at most keep messages
\* changes neither summary nor messages.
C9_NoOpWhenFewTurns ==
    (lastCall.op = "apply_compression"
     /\ Len(lastCall.before.messages) <= lastCall.keep)
        => /\ summary = lastCall.before.summary
           /\ messages = lastCall.before.messages

\* C10: when the summarization call of a triggered compression returns an
\* empty or white-space-only text, the summary is left unchanged and the
\* history is cut to its last compression_keep messages.
C10_EmptySummaryStillTruncates ==
    [][\A ch \in SideResults :
          (strip(join(ch)) = <<>> /\ CompressDone(ch))
              => /\ summary' = summary
                 /\ messages' = Suffix(messages, compression_keep)]_vars

\* ------------------------------------------------------- strategy classes
\* the list [system prompt] + [summary message, if summ is non-empty] + msgs,
\* stated element by element
IsSummaryHistory(h, msgs, summ) ==
    LET k == IF summ # <<>> THEN 2 ELSE 1
    IN /\ Len(h) = Len(msgs) + k
       /\ h[1] = Msg("system", SYSTEM_PROMPT)
       /\ summ # <<>> => h[2] = Msg("system", <<"PCS:">> \o summ)
       /\ \A i \in 1..Len(msgs) : h[k + i] = msgs[i]

SessionAsBefore ==
    /\ messages = lastCall.before.messages
    /\ summary = lastCall.before.summary
    /\ facts = lastCall.before.facts

\* C12: a process_context call of the running-summary strategy that directly
\* follows a process_context call which compressed the history issues no
\* summarization call and leaves summary and history unchanged.
C12_PrepareIdempotent ==
    (/\ lastCall.op = "process_context"
     /\ lastCall.strat \in {"default", "branching"}
     /\ lastCall.after_compression)
        => /\ ~lastCall.issued
           /\ summary = lastCall.before.summary
           /\ messages = lastCall.before.messages

\* a second process_context after a compression that kept a user message,
\* with the trigger condition still true of the compressed history
C12_Witness ==
    /\ lastCall.op = "process_context"
    /\ lastCall.strat \in {"default", "branching"}
    /\ lastCall.after_compression
    /\ compression_enabled
    /\ UserMsgCount(lastCall.before.messages) > compression_threshold
    /\ lastCall.before.summary # <<>>

\* C13: for default and branching the list built for the model, by
\* DefaultStrategy.build_history_messages and by stream_reply, is the system
\* prompt, then the summary message if and only if the summary is non-empty,
\* then all messages of the history in order; the session is not changed.
C13_SummaryHistoryLayout ==
    (/\ lastCall.op = "build_history_messages"
     /\ lastCall.strat \in {"default", "branching"})
        => /\ IsSummaryHistory(lastCall.result, lastCall.before.messages,
                               lastCall.before.summary)
           /\ IsSummaryHistory(lastCall.inline, lastCall.before.messages,
                               lastCall.before.summary)
           /\ SessionAsBefore

\* a list built for branching from a summary and two different messages
C13_Witness ==
    /\ lastCall.op = "build_history_messages"
    /\ lastCall.strat = "branching"
    /\ lastCall.before.summary # <<>>
    /\ Len(lastCall.before.messages) = 2
    /\ lastCall.before.messages[1] # lastCall.before.messages[2]
    /\ Len(lastCall.result) = 4

\* C14: WindowStrategy.build_history_messages with window_size w >= 0 returns
\* the system message followed by the last min(w, len) messages of the
\* history, in order, and nothing else.
C14_WindowIsTrailingSlice ==
    (/\ lastCall.op = "build_history_messages"
     /\ lastCall.strat = "window")
        => LET msgs == lastCall.before.messages
               k == Min(lastCall.window, Len(msgs))
           IN /\ Len(lastCall.result) = k + 1
              /\ lastCall.result[1] = Msg("system", SYSTEM_PROMPT)
              /\ \A i \in 1..k : lastCall.result[1 + i] = Suffix(msgs, k)[i]

\* C15: after a process_context call of the facts strategy that issued the
\* extraction call, facts is the stripped text returned when that text is
\* non-empty and is its previous value otherwise; a second extraction in a
\* row that returns the same chunks leaves facts unchanged.
C15_FactsReplaced ==
    (/\ lastCall.op = "process_context"
     /\ lastCall.strat = "facts"
     /\ lastCall.issued)
        => /\ facts = IF strip(join(lastCall.chunks)) # <<>>
                      THEN strip(join(lastCall.chunks))
                      ELSE lastCall.before.facts
           /\ lastCall.again => facts = lastCall.before.facts

\* a second extraction in a row returning the same chunks, which strip()
\* shortens, on a session that already had facts
C15_Witness ==
    /\ lastCall.op = "process_context"
    /\ lastCall.strat = "facts"
    /\ lastCall.issued
    /\ lastCall.again
    /\ lastCall.before.facts # <<>>
    /\ strip(join(lastCall.chunks)) # join(lastCall.chunks)
    /\ facts = strip(join(lastCall.chunks))

\* C16: no add_user, add_assistant, process_context or build_history_messages
\* call makes non-empty facts empty, and every list built for the facts
\* strategy while facts is non-empty, by FactsStrategy.build_history_messages
\* and by stream_reply, starts with the system prompt followed by the facts
\* block with the current facts.
C16_FactsPersist ==
    [][/\ facts # <<>> => facts' # <<>>
       /\ (/\ lastCall'.op = "build_history_messages"
           /\ lastCall'.strat = "facts"
           /\ facts # <<>>)
             => /\ lastCall'.result[1]
                      = Msg("system", SYSTEM_PROMPT \o <<"FACTS:">> \o facts)
                /\ lastCall'.inline[1]
                      = Msg("system", SYSTEM_PROMPT \o <<"FACTS:">> \o facts)]_vars

\* a list built for the facts strategy after the user message the facts were
\* extracted from was dropped by capacity trimming
C16_Witness ==
    /\ lastCall.op = "build_history_messages"
    /\ lastCall.strat = "facts"
    /\ max_messages = 1
    /\ facts # <<>>
    /\ messages = <<Msg("assistant", <<"h">>)>>
    /\ lastCall.result[1] = Msg("system", SYSTEM_PROMPT \o <<"FACTS:">> \o facts)

\* ---------------------------------------------------------------- web turn
\* the prepare step of the turn is over: stream_reply is about to build the
\* main request, or the side call of the prepare step has raised
PrepareOver == pc = "build" \/ (pc = "ended" /\ outcome = "side_error")

\* the history the prepare step worked on (the one add_user left)
PreparedHistory == IF calls # <<>> THEN calls[1].history ELSE messages

SummaryCallIssued == \E i \in 1..Len(calls) : calls[i].kind = "summary"
SideCallIssued == \E i \in 1..Len(calls) : calls[i].kind \in {"summary", "facts"}

\* the chunks that went out as delta events, in order
Deltas == SelectSeq(events, LAMBDA e : e.type = "delta")
DeltaData == LET d == Deltas IN [i \in 1..Len(d) |-> d[i].data]
IsNotice(chunk) == chunk \in {NoticeCompress, NoticeFacts}
NoticeSurfaced == \E i \in 1..Len(events) :
                      events[i].type = "delta" /\ IsNotice(events[i].data)
MainDeltas == LET d == DeltaData
              IN IF d # <<>> /\ IsNotice(d[1]) THEN Tail(d) ELSE d

IsPrefix(s, t) == Len(s) <= Len(t) /\ s = SubSeq(t, 1, Len(s))
IsSuffix(s, t) == Len(s) <= Len(t) /\ s = SubSeq(t, Len(t) - Len(s) + 1, Len(t))

\* the main call of the turn was exhausted and the code after the loop ran
MainCompleted == pc \notin {"idle", "api"} /\ last_token_stats # NoStats
MainCallIssued == \E i \in 1..Len(calls) : calls[i].kind = "main"
MainCallHistory == calls[CHOOSE i \in 1..Len(calls) : calls[i].kind = "main"].history

\* C11 as stated: in the prepare step a summarization call is issued if and
\* only if the strategy is default or branching, compression is enabled and
\* the history, the new user turn included, holds more user turns than the
\* threshold.
C11_CompressionFiresIffOverThreshold ==
    PrepareOver =>
        (SummaryCallIssued <=>
            /\ strategy \in {"default", "branching"}
            /\ compression_enabled
            /\ UserMsgCount(PreparedHistory) > compression_threshold)

\* C11 as amended: ... and the history holds more than compression_keep
\* messages (with at most compression_keep messages _compress_history returns
\* before it issues the call).
C11_CompressionFiresIffOverThresholdAndKeep ==
    PrepareOver =>
        (SummaryCallIssued <=>
            /\ strategy \in {"default", "branching"}
            /\ compression_enabled
            /\ UserMsgCount(PreparedHistory) > compression_threshold
            /\ Len(PreparedHistory) > compression_keep)

\* a branching turn whose user turn is the first one over the threshold, with
\* the summarization call issued
C11_Witness ==
    /\ pc = "build"
    /\ strategy = "branching"
    /\ SummaryCallIssued
    /\ UserMsgCount(PreparedHistory) = compression_threshold + 1
    /\ compression_threshold = MaxThreshold

\* C17: a notice goes out in a turn only if the prepare step of that turn
\* issued its side call (summarization or extraction); the window strategy
\* never produces a notice.
C17_NoticeOnlyWhenPrepareActed ==
    /\ (PrepareOver /\ NoticeSurfaced) => SideCallIssued
    /\ strategy = "window" => ~NoticeSurfaced

\* C18: the chunks that reach the caller are, after the notice if there is
\* one, the content chunks of the main call in arrival order: always a prefix
\* of them that misses at most the chunk that is being handed over, and all of
\* them once the consumer has taken the last one; chunks of side calls are
\* never among them.
C18_ChunksForwardedInOrder ==
    LET d == MainDeltas
    IN /\ IsPrefix(d, response_parts)
       /\ Len(response_parts) - Len(d) <= 1
       /\ (pc # "yield" /\ outcome \notin {"disconnect", "cancel"})
             => d = response_parts
       /\ \A i \in 1..Len(d) : ~IsNotice(d[i])

\* a finished turn that forwarded a notice and then two different chunks, its
\* summarization call having returned a text
C18_Witness ==
    /\ pc = "ended" /\ outcome = "done"
    /\ NoticeSurfaced
    /\ SummaryCallIssued /\ summary # <<>>
    /\ Len(MainDeltas) = 2
    /\ MainDeltas[1] # MainDeltas[2]

\* C19: once the main stream is exhausted, the stripped concatenation of the
\* forwarded main chunks is the last message of the history, as an assistant
\* turn, when it is non-empty, and no message was added when it is empty.
C19_StrippedReplyCommitted ==
    MainCompleted =>
        LET text == strip(join(MainDeltas))
        IN IF text # <<>>
           THEN /\ messages # <<>>
                /\ Last(messages) = Msg("assistant", text)
                /\ IsSuffix(SubSeq(messages, 1, Len(messages) - 1), MainCallHistory)
           ELSE messages = MainCallHistory

\* a finished turn whose reply was shortened by strip() before it was committed
C19_Witness ==
    /\ pc = "ended" /\ MainCompleted
    /\ LET raw == join(MainDeltas)
       IN /\ strip(raw) # <<>>
          /\ strip(raw) # raw
          /\ Last(messages) = Msg("assistant", strip(raw))

\* C20: when a turn whose main call was issued has ended, for whatever
\* reason, and its stream_reply has been finalized, last_token_stats holds the
\* token counts of that turn.
C20_TokenStatsOfThisTurn ==
    (pc = "ended" /\ MainCallIssued /\ abandoned = None)
        => last_token_stats = turns_run

\* ------------------------------------------------------------ title call
TitleCalls == {i \in 1..Len(calls) : calls[i].kind = "title"}

\* C21: a title call is issued only after the main call was exhausted and its
\* reply (when non-empty) committed as the last assistant turn; when the title
\* call raises, no error event is produced, the history stays the committed
\* one, summary stays empty (the call is made only while it is empty), and a
\* turn that is not cancelled by its consumer ends with done.
C21_TitleFailureSwallowed ==
    \A i \in TitleCalls :
        /\ MainCompleted
        /\ i = Len(calls)
        /\ calls[i].history = messages
        /\ PartialText # <<>> => Last(calls[i].history) = Msg("assistant", PartialText)
        /\ calls[i].raised =>
              /\ summary = <<>>
              /\ \A j \in 1..Len(events) : events[j].type # "error"
              /\ (pc = "ended" /\ outcome # "cancel")
                    => /\ outcome = "done"
                       /\ Last(events).type = "done"
                       /\ file = save(messages, summary)

\* a turn that ended with done after its title call raised, the reply being
\* the last message of the history and of the file
C21_Witness ==
    /\ pc = "ended" /\ outcome = "done"
    /\ \E i \in TitleCalls : calls[i].raised
    /\ PartialText # <<>>
    /\ Last(messages) = Msg("assistant", PartialText)
    /\ Last(file.messages) = Last(messages)
    /\ Last(events).type = "done"

\* a summarization call of this turn returned a text, which apply_compression
\* then stored
CompressionApplied ==
    \E i \in 1..Len(calls) :
        calls[i].kind = "summary" /\ ~calls[i].raised /\ calls[i].returned # <<>>

\* C22: while a turn of a session runs, summary is non-empty only if a
\* compression was applied in that turn or the session file it was loaded
\* from (still unchanged until the turn has ended) holds a non-empty summary.
C22_SummaryOnlyFromCompression ==
    (pc \in {"yield", "compress", "extract", "build", "main", "title", "stats", "done"}
     /\ turns_run = 1 /\ summary # <<>>)
        => CompressionApplied \/ file.summary # <<>>

\* ------------------------------------------------------- side call, then main
\* C30: every call issued before the main call of a turn is a side call that
\* has returned, and the main call is the last one so far or is followed by
\* the title call only; when the summarization call returned a text, the list
\* sent by the main call is the system prompt, the summary message with that
\* text and the last compression_keep messages of the history the side call
\* saw, and nothing else; when the extraction call returned a text, the list
\* starts with the system prompt carrying that text as facts.
C30_MainCallAfterSideCall ==
    \A i \in 1..Len(calls) : calls[i].kind = "main" =>
        /\ i <= 2
        /\ \A j \in (i + 1)..Len(calls) : calls[j].kind = "title"
        /\ \A j \in 1..(i - 1) :
              /\ calls[j].kind \in {"summary", "facts"}
              /\ ~calls[j].raised
              /\ (calls[j].kind = "summary" /\ calls[j].returned # <<>>)
                    => /\ calls[i].history = Suffix(calls[j].history, compression_keep)
                       /\ IsSummaryHistory(calls[i].request, calls[i].history,
                                           calls[j].returned)
              /\ (calls[j].kind = "summary" /\ calls[j].returned = <<>>)
                    => calls[i].history = calls[j].history
              /\ (calls[j].kind = "facts" /\ calls[j].returned # <<>>)
                    => /\ calls[i].request[1]
                             = Msg("system", SYSTEM_PROMPT \o <<"FACTS:">> \o calls[j].returned)
                       /\ calls[i].history = calls[j].history
                       /\ Tail(calls[i].request) = calls[i].history

\* a main call issued after a summarization call that returned a text and
\* dropped the older of two messages
C30_Witness ==
    /\ pc = "main"
    /\ Len(calls) = 2
    /\ calls[1].kind = "summary" /\ calls[1].returned # <<>>
    /\ Len(calls[1].history) = 2
    /\ compression_keep = 1
    /\ calls[2].kind = "main"
    /\ calls[2].request = <<Msg("system", SYSTEM_PROMPT),
                            Msg("system", <<"PCS:">> \o calls[1].returned),
                            calls[1].history[2]>>

\* ------------------------------------------------------------ persistence
\* C24: load never leaves by an exception; after load of a missing file the
\* session is as before, and after load of a file that json.load rejects or
\* whose content is not a JSON object the session has no messages and an
\* empty summary.
C24_LoadToleratesBadFiles ==
    lastCall.op \in {"load", "load_raised"} =>
        /\ lastCall.op # "load_raised"
        /\ lastCall.text = <<"missing">>
              => /\ messages = lastCall.before.messages
                 /\ summary = lastCall.before.summary
        /\ lastCall.text \in {<<"corrupt">>, <<"nonrecord">>}
              => /\ messages = <<>>
                 /\ summary = <<>>

\* C23: after save followed by load on a new ChatSession of the same
\* capacity, the new session has the summary, the facts and the messages of
\* the saved one.
C23_SaveLoadRoundTrip ==
    lastCall.op = "save_load" =>
        /\ lastCall.loaded.summary = summary
        /\ lastCall.loaded.facts = facts
        /\ lastCall.loaded.messages = messages

\* C28: for a strategy name outside default, window, facts and branching the
\* list sent to the model, as get_strategy's instance builds it and as
\* stream_reply builds it, is the one of default (system prompt, summary
\* message if the summary is non-empty, all messages), and stream_reply runs
\* the compression under the condition it uses for default.
C28_UnknownNameFallsBackToDefault ==
    (/\ lastCall.op = "build_history_messages"
     /\ lastCall.strat \notin Strategies)
        => /\ IsSummaryHistory(lastCall.result, lastCall.before.messages,
                               lastCall.before.summary)
           /\ IsSummaryHistory(lastCall.inline, lastCall.before.messages,
                               lastCall.before.summary)
           /\ CompressionDue(lastCall.strat, messages)
                 = CompressionDue("default", messages)

\* ------------------------------------------------------------ token counts
\* C29: without a tiktoken encoder count_text_tokens returns the method
\* heuristic; 0 tokens for the empty text; for a text of n >= 1 characters the
\* least t >= 1 with n <= 4 * t (1 for "abcd"); and for two calls in a row
\* the longer text never gets the smaller count.
C29_HeuristicTokenCount ==
    (lastCall.op = "count_text_tokens" /\ lastCall.encoder = None) =>
        LET n == Len(lastCall.text)
            t == lastCall.result.tokens
        IN /\ lastCall.result.method = "heuristic"
           /\ n = 0 => t = 0
           /\ n >= 1 => t >= 1 /\ n <= 4 * t /\ (t > 1 => 4 * (t - 1) < n)
           /\ lastCall.text = <<"a", "b", "c", "d">> => t = 1
           /\ (lastCall.prev.encoder = None /\ Len(lastCall.prev.text) <= n)
                 => lastCall.prev.result.tokens <= t

\* the count of a five-character text, two tokens, after the count of "abcd"
C29_Witness ==
    /\ lastCall.op = "count_text_tokens" /\ lastCall.encoder = None
    /\ Len(lastCall.text) = 5 /\ lastCall.result = TokenCount(2, "heuristic")
    /\ lastCall.prev.text = <<"a", "b", "c", "d">>
    /\ lastCall.prev.encoder = None
    /\ lastCall.prev.result = TokenCount(1, "heuristic")

\* ------------------------------------------------------------- atomic save
\* the file holds one complete record and nothing else
Complete(f) == \E w \in Writers \cup {"old"} : f.data = RecordOf(w)

\* C25: at every moment the file at the path, when there is one, holds one
\* complete record: the earlier one or the one of a writer, whether writers
\* crash in the middle of save or run save concurrently.
C25_SaveAtomic == path_file.exists => Complete(path_file)

\* ------------------------------------------------------ several sessions
\* every message of a session came from its own consumer or is a reply
OwnMessagesOnly(id) ==
    _sessions[id].origin = "new" =>
        \A i \in 1..Len(_sessions[id].messages) :
            _sessions[id].messages[i].role = "user"
                => _sessions[id].messages[i].content = UserTextOf(id)

\* C26: the requests of two session ids do not influence each other: the
\* history of a session holds only the messages of its own turns, and the
\* stats event of a request carries the metrics of a call made for its own
\* session and the cost that the requests of its own session accumulated.
C26_SessionsIndependent ==
    /\ \A id \in DOMAIN _sessions : OwnMessagesOnly(id)
    /\ \A id \in SessionIds :
          requests[id].stats.sent =>
              /\ requests[id].stats.metrics # NoMetrics
                    => requests[id].stats.metrics.session = id
              /\ requests[id].stats.session_cost_usd = requests[id].stats.own

\* ------------------------------------------------ the registry's sessions
\* AppState's get_session and create_branch and the ChatSession calls of the
\* routes and the agent, called one at a time on the registered sessions

\* create_branch storing the parent's own object under the new id
create_branch_shares(reg, parent_id, message_index, new_branch_id) ==
    [i \in DOMAIN reg \cup {new_branch_id} |->
        IF i = new_branch_id THEN reg[parent_id] ELSE reg[i]]

\* create_branch on the registry reg in which parent_id is registered
create_branch(reg, parent_id, message_index, new_branch_id) ==
    [i \in DOMAIN reg \cup {new_branch_id} |->
        IF i = new_branch_id
        THEN clone(reg[parent_id], message_index, new_branch_id)
        ELSE reg[i]]

BranchInit == ProgramAtRest("branch", RegCap) /\ FsIdle /\ RegIdle

\* what every call leaves alone; lastCall names the call made
BranchFrame(op) ==
    /\ pc = "branch" /\ turns_run < MaxBranchCalls
    /\ turns_run' = turns_run + 1
    /\ lastCall' = [lastCall EXCEPT !.op = op]
    /\ UNCHANGED <<configVars, fsVars, sessionVars, last_metrics, agentVars, webVars,
                   calls, outcome, abandoned, appended, only_adds,
                   _session_cost_usd, requests>>

\* get_session(id).add_user(...)
BrAddUser(id) ==
    /\ _sessions' = WithSession(id,
          [SessionOf(id) EXCEPT !.messages = add_user(@, UserTextOf(id))])
    /\ BranchFrame("add_user")

\* get_session(id).add_assistant(...)
BrAddAssistant(id) ==
    /\ _sessions' = WithSession(id,
          [SessionOf(id) EXCEPT !.messages = add_assistant(@, <<"h">>)])
    /\ BranchFrame("add_assistant")

\* the agent's assignment of a title to the summary of get_session(id)
BrSetSummary(id) ==
    /\ _sessions' = WithSession(id, [SessionOf(id) EXCEPT !.summary = <<"t">>])
    /\ BranchFrame("summary")

\* get_session(id).clear()
BrClear(id) ==
    /\ _sessions' = WithSession(id, [SessionOf(id) EXCEPT !.messages = <<>>,
                                                          !.summary = <<>>])
    /\ BranchFrame("clear")

\* create_branch(parent_id, message_index, new_branch_id); get_session
\* registers the parent when it is unknown
BrCreateBranch(parent_id, message_index, new_branch_id) ==
    /\ _sessions' = create_branch(WithSession(parent_id, SessionOf(parent_id)),
                                  parent_id, message_index, new_branch_id)
    /\ BranchFrame("create_branch")

\* GET /history: get_session(session_id), whose result is only read
BrHistory(id) ==
    /\ _sessions' = WithSession(id, SessionOf(id))
    /\ BranchFrame("get_history")

\* GET /sessions: get_all_sessions(), which is only read
BrListSessions ==
    /\ UNCHANGED _sessions
    /\ BranchFrame("list_sessions")

\* DELETE /sessions/{session_id}: delete_session
BrDelete(id) ==
    /\ _sessions' = [i \in DOMAIN _sessions \ {id} |-> _sessions[i]]
    /\ BranchFrame("delete_session")

BranchNext ==
    \/ BrListSessions
    \/ \E id \in SessionIds :
        \/ BrAddUser(id)
        \/ BrAddAssistant(id)
        \/ BrSetSummary(id)
        \/ BrClear(id)
        \/ BrHistory(id)
        \/ BrDelete(id)
        \/ \E k \in 0..MaxBranchIndex, new \in SessionIds : BrCreateBranch(id, k, new)

BranchSpec == BranchInit /\ [][BranchNext]_vars

\* --------------------------------------------------------------- branches
\* a call that can change the session of id
MutatesSession(id) ==
    \/ BrAddUser(id)
    \/ BrAddAssistant(id)
    \/ BrSetSummary(id)
    \/ BrClear(id)

Persisted(f) == [summary |-> f.summary, facts |-> <<>>, messages |-> f.messages]

\* the session as it is in memory
InMemory == [summary |-> summary, facts |-> facts, messages |-> messages]

\* C31: when a web turn has ended (done, error, disconnect or cancellation),
\* the session file holds a record, written by the turn, that equals the
\* session in memory: its summary, its facts and its messages.
C31_FileIsSessionAtTurnEnd ==
    (pc = "ended" /\ persist_context) =>
        /\ file.kind = "record"
        /\ Persisted(file) = InMemory

\* ------------------------------------------- DeepSeekClient.stream_message
\* A line of the response body, by what the loop of stream_message does with
\* it: blank after strip(); without the prefix "data: "; the terminator
\* "data: [DONE]"; data that json.loads rejects; data that is JSON but no
\* object (null, a number, a list), on which event.get raises AttributeError;
\* an object whose "choices" is an empty list, on which [0] raises
\* IndexError; bytes that are not UTF-8, on which decode raises; an object
\* with a delta, whose content is a text or is missing or empty
ContentFrame(c) == [kind |-> "event", content |-> c]
BareFrame(k) == [kind |-> k, content |-> <<>>]
SkippedKinds == {"blank", "noprefix", "unparseable"}
RaisingKinds == {"nonobject", "nochoice", "undecodable"}
Frames == {BareFrame(k) : k \in SkippedKinds \cup RaisingKinds \cup {"done"}}
              \cup {ContentFrame(c) : c \in {<<>>, <<"h">>, <<Space>>}}

RECURSIVE Bodies(_)
Bodies(n) == IF n = 0 THEN {<<>>}
             ELSE Bodies(n - 1) \cup {Append(b, f) : b \in Bodies(n - 1), f \in Frames}

\* a call of stream_message: the lines of the body, how many of them were
\* read, the chunks yielded, and whether the call is running ("open"), has
\* returned or has raised
StreamCall(body, pos, out, status) ==
    [op |-> "stream_message", body |-> body, pos |-> pos, yielded |-> out,
     status |-> status]
NoStreamCall == [op |-> "init", body |-> <<>>, pos |-> 0, yielded |-> <<>>,
                 status |-> "returned"]

ClientInit ==
    /\ max_messages = 0
    /\ compression_enabled = FALSE
    /\ compression_threshold = 0
    /\ compression_keep = 0
    /\ persist_context = FALSE
    /\ messages = <<>>
    /\ summary = <<>>
    /\ facts = <<>>
    /\ last_metrics = NoMetrics
    /\ last_token_stats = NoStats
    /\ response_parts = <<>>
    /\ strategy = "default"
    /\ user_input = <<>>
    /\ pc = "client"
    /\ resume = "client"
    /\ yielded = <<>>
    /\ events = <<>>
    /\ file = NoFile
    /\ calls = <<>>
    /\ outcome = None
    /\ turns_run = 0
    /\ abandoned = None
    /\ lastCall = NoStreamCall
    /\ appended = <<>>
    /\ only_adds = TRUE
    /\ FsIdle
    /\ RegIdle

ClientFrame == UNCHANGED <<configVars, fsVars, regVars, sessionVars, agentVars, webVars,
                           turnHist, abandoned, appended, only_adds>>

\* the call up to `async for raw_line in response.content` (status 200);
\* one call is followed to its end
StreamOpen(body) ==
    /\ pc = "client"
    /\ lastCall.op = "init"
    /\ lastCall' = StreamCall(body, 0, <<>>, "open")
    /\ UNCHANGED last_metrics
    /\ ClientFrame

\* one iteration of the loop, on the next line of the body; leaving the loop by break or by
\* an exception runs the finally clause, which stores the metrics
StreamLine ==
    /\ pc = "client"
    /\ lastCall.status = "open"
    /\ lastCall.pos < Len(lastCall.body)
    /\ LET f == lastCall.body[lastCall.pos + 1]
           p == lastCall.pos + 1
       IN IF f.kind = "done"
          THEN /\ lastCall' = [lastCall EXCEPT !.pos = p, !.status = "returned"]
               /\ last_metrics' = Metrics("main")
          ELSE IF f.kind \in RaisingKinds
          THEN /\ lastCall' = [lastCall EXCEPT !.pos = p, !.status = "raised"]
               /\ last_metrics' = Metrics("main")
          ELSE /\ lastCall' = [lastCall EXCEPT !.pos = p,
                    !.yielded = IF f.kind = "event" /\ f.content # <<>>
                                THEN Append(@, f.content) ELSE @]
               /\ UNCHANGED last_metrics
    /\ ClientFrame

\* the body ends without a terminator: the loop ends, then finally
StreamEof ==
    /\ pc = "client"
    /\ lastCall.status = "open"
    /\ lastCall.pos = Len(lastCall.body)
    /\ lastCall' = [lastCall EXCEPT !.status = "returned"]
    /\ last_metrics' = Metrics("main")
    /\ ClientFrame

ClientNext ==
    \/ \E body \in Bodies(MaxLines) : StreamOpen(body)
    \/ StreamLine
    \/ StreamEof

ClientSpec == ClientInit /\ [][ClientNext]_vars

\* the content chunks of the frames of body before its first terminator
RECURSIVE ChunksBeforeDone(_)
ChunksBeforeDone(body) ==
    IF body = <<>> \/ Head(body).kind = "done" THEN <<>>
    ELSE IF Head(body).kind = "event" /\ Head(body).content # <<>>
    THEN <<Head(body).content>> \o ChunksBeforeDone(Tail(body))
    ELSE ChunksBeforeDone(Tail(body))

\* C32: no frame makes stream_message end with an exception, and a call
\* that has ended has yielded exactly the content chunks of the frames before
\* the first terminator of the body, in their order, and nothing of what
\* follows the terminator.
C32_UnusableFramesSkipped ==
    lastCall.op = "stream_message" =>
        /\ lastCall.status # "raised"
        /\ lastCall.status = "returned"
              => lastCall.yielded = ChunksBeforeDone(lastCall.body)

\* ---------------------------------------------------- the stats of a turn
\* C33: the metrics that stream_events puts in the stats event of a turn are
\* those of the main reply call of that turn: not those of a summarization,
\* extraction or title call, and not those of a call of an earlier turn.
C33_StatsDescribeMainCall ==
    [][(EmitStats /\ last_metrics # NoMetrics)
          => (last_metrics.kind = "main" /\ last_metrics.turn = turns_run)]_vars

\* ------------------------------------------------- the cost of a session
\* C34: the session_cost_usd of a stats event is the sum of the costs of the
\* main calls of the completed turns of the session the event goes to, since
\* that session was last cleared.
C34_CostIsOwnSessionCost ==
    \A id \in SessionIds :
        requests[id].stats.sent =>
            requests[id].stats.session_cost_usd = requests[id].stats.due

\* ------------------------------------------------ what compression removes
\* the old turns in a summarization request: all but its system instruction
\* and its closing user instruction
OldTurnContext(req) == SubSeq(req, 2, Len(req) - 1)

\* C35: every message that a compression removes from the history is one of
\* the old turns of the summarization request whose result became the
\* summary: the removed messages are the first messages of that context.
C35_RemovedTurnsWereSummarized ==
    [][\A ch \in SideResults :
         (CompressDone(ch) /\ messages' # messages)
            => LET removed == SubSeq(messages, 1, Len(messages) - Len(messages'))
                   old == OldTurnContext(calls'[Len(calls')].request)
               IN IsPrefix(removed, old)]_vars

\* ------------------------------------------- the end of the main request
\* C36: with a capacity of at least 1, the list sent to the model for the
\* main reply of a turn ends with the user message of that turn.
C36_MainRequestEndsWithUserMessage ==
    max_messages >= 1 =>
        \A i \in 1..Len(calls) :
            calls[i].kind = "main" =>
                /\ calls[i].request # <<>>
                /\ calls[i].request[Len(calls[i].request)] = Msg("user", user_input)

\* ---------------------------------------------------- what is sent is bounded
\* the stored turns in a request: its user and assistant messages
StoredTurns(req) ==
    Cardinality({i \in 1..Len(req) : req[i].role \in {"user", "assistant"}})

\* C37: in a turn with strategy default and compression enabled in which no
\* summarization call returned an empty text, the main request holds at most
\* max(compression_keep, 2 * compression_threshold) stored turns.
C37_CompressionBoundsRequest ==
    (strategy = "default" /\ compression_enabled) =>
        \A i \in 1..Len(calls) :
            (/\ calls[i].kind = "main"
             /\ \A j \in 1..(i - 1) :
                   calls[j].kind = "summary" => calls[j].returned # <<>>)
              => StoredTurns(calls[i].request)
                    <= Max(compression_keep, 2 * compression_threshold)

\* a main request of one stored turn, sent after a compression with keep 1
\* cut a longer history
C37_Witness ==
    /\ strategy = "default" /\ compression_enabled /\ compression_keep = 1
    /\ Len(calls) >= 2
    /\ calls[1].kind = "summary" /\ calls[1].returned # <<>>
    /\ Len(calls[1].history) = 2
    /\ calls[2].kind = "main"
    /\ StoredTurns(calls[2].request) = 1

\* ------------------------------------------------- the registered sessions
\* C38: the set of registered ids changes only by a turn (which registers
\* its id), a branch (which registers the new id and nothing else) and a
\* delete (which removes its id): the history query and the session listing
\* leave the set as it is, and create_branch does not register its parent.
C38_RegistryMembership ==
    [][/\ \A id \in SessionIds :
            /\ BrHistory(id) => DOMAIN _sessions' = DOMAIN _sessions
            /\ BrDelete(id) => DOMAIN _sessions' = DOMAIN _sessions \ {id}
            /\ (BrAddUser(id) \/ BrAddAssistant(id) \/ BrSetSummary(id))
                  => DOMAIN _sessions' = DOMAIN _sessions \cup {id}
            /\ \A k \in 0..MaxBranchIndex, new \in SessionIds :
                  BrCreateBranch(id, k, new)
                     => DOMAIN _sessions' = DOMAIN _sessions \cup {new}
       /\ BrListSessions => DOMAIN _sessions' = DOMAIN _sessions]_vars

\* ------------------------------------------------- the file of "default"
\* the summary and the messages a reader finds at the path (none when there
\* is no file)
Content(f) == [summary |-> f.summary, messages |-> f.messages]

\* C39: the session file, which the next process start loads into the
\* session "default", holds what the last completed turn or clear of
\* "default" saved, whatever the other sessions do.
C39_FileBelongsToDefault ==
    Content(file) = Content(requests["default"].saved)


====
